---------------------------- MODULE Spec2Model ----------------------------
(***************************************************************************)
(* A model of Core/HLE/AtracCtx.cpp: the ATRAC3 / ATRAC3+ playback         *)
(* context.  One record, atrac, holds the fields of the Atrac object; the  *)
(* methods are operators from an object to the object they leave behind    *)
(* (plus their result), and every action applies one whole method.         *)
(***************************************************************************)
EXTENDS Integers, Sequences, FiniteSets, TLC

VARIABLES
    atrac,      \* the Atrac object (all its fields, and the guest record)
    call,       \* the last call: its name and arguments
    ret,        \* the last call's result code and output parameters
    hist,       \* observers of a run: passes over the track, decoder faults
    mem,        \* the guest memory region handed to Analyze / AnalyzeAA3
    saved       \* the record DoState wrote (the save state)

vars == <<atrac, call, ret, hist, mem, saved>>

-----------------------------------------------------------------------------
(* Machine integers.  The program's u32 and int are 32 bits wide; the      *)
(* model keeps the wrap-around arithmetic and scales the width to WordBits *)
(* so that every sum stays inside the checker's integers.                  *)

WordBits == 20

WordMod == 2 ^ WordBits

\* a value as an unsigned machine word
U(x) == x % WordMod

\* a value as a signed machine word
S(x) == LET u == x % WordMod IN IF u >= WordMod \div 2 THEN u - WordMod ELSE u

Min(x, y) == IF x <= y THEN x ELSE y

Max(x, y) == IF x >= y THEN x ELSE y

\* F of the value v: a local the body reads more than once
Let(v, F(_)) == F(v)

\* C++ signed division truncates toward zero
TruncDiv(x, y) == IF x >= 0 THEN x \div y ELSE -((-x) \div y)

-----------------------------------------------------------------------------
(* Constants of the format and of the firmware interface.                  *)

RIFF_CHUNK_MAGIC == 1179011410

RIFF_WAVE_MAGIC == 1163280727

FMT_CHUNK_MAGIC == 544501094

DATA_CHUNK_MAGIC == 1635017060

SMPL_CHUNK_MAGIC == 1819307379

FACT_CHUNK_MAGIC == 1952670054

PSP_MODE_AT_3_PLUS == 4096

PSP_MODE_AT_3 == 4097

AT3_MAGIC == 624

AT3_PLUS_MAGIC == 65534

ATRAC3_MAX_SAMPLES == 1024

ATRAC3PLUS_MAX_SAMPLES == 2048

ATRAC_STATUS_NO_DATA == 1

ATRAC_STATUS_ALL_DATA_LOADED == 2

ATRAC_STATUS_HALFWAY_BUFFER == 3

ATRAC_STATUS_STREAMED_WITHOUT_LOOP == 4

ATRAC_STATUS_STREAMED_LOOP_FROM_END == 5

ATRAC_STATUS_STREAMED_LOOP_WITH_TRAILER == 6

ATRAC_STATUS_LOW_LEVEL == 8

ATRAC_STATUS_FOR_SCESAS == 16

ATRAC_STATUS_STREAMED_MASK == 4

PSP_ATRAC_ALLDATA_IS_ON_MEMORY == -1

PSP_ATRAC_NONLOOP_STREAM_DATA_IS_ON_MEMORY == -2

PSP_ATRAC_LOOP_STREAM_DATA_IS_ON_MEMORY == -3

\* bufferState_ & ATRAC_STATUS_STREAMED_MASK == ATRAC_STATUS_STREAMED_MASK
IsStreamed(state) == (state \div ATRAC_STATUS_STREAMED_MASK) % 2 = 1

-----------------------------------------------------------------------------
(* The object.                                                             *)

EmptyBuffer ==
    [addr |-> 0, size |-> 0, offset |-> 0, writableBytes |-> 0,
     neededBytes |-> 0, filesize |-> 0, fileoffset |-> 0]

EmptyInfo ==
    [buffer |-> 0, bufferByte |-> 0, secondBuffer |-> 0, secondBufferByte |-> 0,
     codec |-> 0, loopNum |-> 0, loopStart |-> 0, loopEnd |-> 0, state |-> 0,
     samplesPerChan |-> 0, sampleSize |-> 0, numChan |-> 0, dataOff |-> 0,
     endSample |-> 0, dataEnd |-> 0, curOff |-> 0, decodePos |-> 0,
     streamDataByte |-> 0, atracID |-> 0]

\* a newly constructed Atrac
NewAtrac ==
    [channels |-> 0, outputChannels |-> 2, jointStereo |-> 0, atracID |-> -1,
     first |-> EmptyBuffer, second |-> EmptyBuffer,
     bufferMaxSize |-> 0, codecType |-> 0,
     currentSample |-> 0, endSample |-> 0, firstSampleOffset |-> 0, dataOff |-> 0,
     hasDataBuf |-> FALSE, decodePos |-> 0, bufferPos |-> 0,
     bitrate |-> 64, bytesPerFrame |-> 0,
     loopinfo |-> <<>>, loopStartSample |-> -1, loopEndSample |-> -1, loopNum |-> 0,
     context |-> FALSE, info |-> EmptyInfo,
     bufferState |-> ATRAC_STATUS_NO_DATA, ignoreDataBuf |-> FALSE,
     bufferValidBytes |-> 0, bufferHeaderSize |-> 0,
     decoder |-> FALSE,
     seek |-> [flushed |-> FALSE, start |-> 0, count |-> 0]]

-----------------------------------------------------------------------------
(* Frame geometry.                                                         *)

SamplesPerFrame(a) ==
    IF a.codecType = PSP_MODE_AT_3_PLUS THEN ATRAC3PLUS_MAX_SAMPLES
                                        ELSE ATRAC3_MAX_SAMPLES

FirstOffsetExtra(a) ==
    IF a.codecType = PSP_MODE_AT_3_PLUS THEN 368 ELSE 69

\* sample is an int
FileOffsetBySample(a, sample) ==
    LET offsetSample == S(sample + a.firstSampleOffset)
        frameOffset == TruncDiv(offsetSample, SamplesPerFrame(a))
    IN  U(a.dataOff + a.bytesPerFrame + frameOffset * a.bytesPerFrame)

DecodePosBySample(a, sample) ==
    U(a.firstSampleOffset
        + TruncDiv(sample, SamplesPerFrame(a)) * a.bytesPerFrame)

\* The ring's logical end: a whole number of frames after the header.
StreamBufferEnd(a) ==
    LET framesAfterHeader ==
            U(a.bufferMaxSize - a.bufferHeaderSize) \div a.bytesPerFrame
    IN  U(framesAfterHeader * a.bytesPerFrame + a.bufferHeaderSize)

UpdateBufferState(a) ==
    IF a.bufferMaxSize >= a.first.filesize
    THEN IF a.first.size < a.first.filesize
         THEN [a EXCEPT !.bufferState = ATRAC_STATUS_HALFWAY_BUFFER]
         ELSE [a EXCEPT !.bufferState = ATRAC_STATUS_ALL_DATA_LOADED]
    ELSE IF a.loopEndSample <= 0
         THEN [a EXCEPT !.bufferState = ATRAC_STATUS_STREAMED_WITHOUT_LOOP]
         ELSE IF a.loopEndSample
                   = S(a.endSample + a.firstSampleOffset + FirstOffsetExtra(a))
              THEN [a EXCEPT !.bufferState = ATRAC_STATUS_STREAMED_LOOP_FROM_END]
              ELSE [a EXCEPT !.bufferState = ATRAC_STATUS_STREAMED_LOOP_WITH_TRAILER]

-----------------------------------------------------------------------------
(* Context sync: the guest-visible record.                                 *)

\* the record keeps the state in a char; bufferState_ is an AtracStatus,
\* an unsigned byte
ToChar(x) == IF x % 256 >= 128 THEN (x % 256) - 256 ELSE x % 256

ToU8(x) == x % 256

UpdateContextFromPSPMem(a) ==
    IF ~a.context THEN a
    ELSE [a EXCEPT !.bufferState = ToU8(a.info.state),
                   !.loopNum = S(a.info.loopNum)]

\* the view WriteContextToPSPMem writes into the guest record
PushedInfo(a) ==
    [buffer |-> a.first.addr,
     bufferByte |-> a.bufferMaxSize,
     secondBuffer |-> a.second.addr,
     secondBufferByte |-> a.second.size,
     codec |-> a.codecType,
     loopNum |-> a.loopNum,
     loopStart |-> IF a.loopStartSample > 0 THEN a.loopStartSample ELSE 0,
     loopEnd |-> IF a.loopEndSample > 0 THEN a.loopEndSample ELSE 0,
     state |-> ToChar(a.bufferState),
     samplesPerChan |->
        IF a.firstSampleOffset # 0
        THEN S(a.firstSampleOffset + FirstOffsetExtra(a))
        ELSE IF a.codecType = PSP_MODE_AT_3_PLUS THEN ATRAC3PLUS_MAX_SAMPLES
                                                 ELSE ATRAC3_MAX_SAMPLES,
     sampleSize |-> a.bytesPerFrame,
     numChan |-> a.channels,
     dataOff |-> a.dataOff,
     endSample |-> U(a.endSample + a.firstSampleOffset + FirstOffsetExtra(a)),
     dataEnd |-> a.first.filesize,
     curOff |-> a.first.fileoffset,
     decodePos |-> DecodePosBySample(a, a.currentSample),
     streamDataByte |-> U(a.first.size - a.dataOff),
     atracID |-> a.atracID]

\* a faulty variant of WriteContextToPSPMem: the loop count is written as
\* the loop bounds are, a negative one as 0
WriteContextLoopClamped(a) ==
    IF ~a.context THEN a
    ELSE [a EXCEPT !.info = [PushedInfo(a) EXCEPT
                               !.loopNum = IF a.loopNum > 0 THEN a.loopNum
                                                            ELSE 0]]

WriteContextToPSPMem(a) ==
    IF ~a.context THEN a ELSE [a EXCEPT !.info = PushedInfo(a)]

-----------------------------------------------------------------------------
(* Reset, decoder construction.                                            *)

ResetData(a) ==
    [a EXCEPT !.decoder = FALSE, !.hasDataBuf = FALSE, !.ignoreDataBuf = FALSE,
              !.bufferState = ATRAC_STATUS_NO_DATA]

AnalyzeReset(a) ==
    [a EXCEPT !.codecType = 0, !.currentSample = 0, !.endSample = -1,
              !.loopNum = 0, !.loopinfo = <<>>,
              !.loopStartSample = -1, !.loopEndSample = -1,
              !.decodePos = 0, !.bufferPos = 0, !.channels = 2]

CreateDecoder(a) ==
    [a EXCEPT !.decoder = TRUE, !.decodePos = 0]

-----------------------------------------------------------------------------
(* Buffer state machine.                                                   *)

\* loopStartSample_ - FirstOffsetExtra() - firstSampleOffset_, as an int
LoopStartAdjusted(a) ==
    S(a.loopStartSample - FirstOffsetExtra(a) - a.firstSampleOffset)

\* the file offset a looping stream restarts reading at
LoopRestartOffset(a) ==
    FileOffsetBySample(a, S(LoopStartAdjusted(a) - SamplesPerFrame(a) * 2))

\* a faulty variant of NothingToWrite: the write offset and the writable
\* count are left as they were
NothingToWriteStale(a) == [a |-> a, readOffset |-> 0]

\* all the data is loaded: nothing to write
NothingToWrite(a) ==
    [a |-> [a EXCEPT !.first.offset = 0, !.first.writableBytes = 0],
     readOffset |-> 0]

\* returns the object (first_.offset and first_.writableBytes refreshed)
\* and the read offset
CalculateStreamInfo(a) ==
    LET fo == a.first.fileoffset IN
    IF a.bufferState = ATRAC_STATUS_ALL_DATA_LOADED
    THEN NothingToWrite(a)
    ELSE IF a.bufferState = ATRAC_STATUS_HALFWAY_BUFFER
    THEN [a |-> [a EXCEPT !.first.offset = fo,
                          !.first.writableBytes = U(a.first.filesize - fo)],
          readOffset |-> fo]
    ELSE
    LET atEnd == fo >= a.first.filesize
        noMore == atEnd /\ a.bufferState = ATRAC_STATUS_STREAMED_WITHOUT_LOOP
    IN
    Let(StreamBufferEnd(a), LAMBDA bufferEnd :
    Let(U(a.bufferPos + a.bufferValidBytes), LAMBDA bufferValidExtended :
    Let(U(bufferValidExtended - bufferEnd), LAMBDA bufferStartUsed :
    Let(IF noMore THEN 0
        ELSE IF bufferValidExtended < bufferEnd THEN bufferValidExtended
        ELSE bufferStartUsed, LAMBDA off2 :
    Let(IF noMore THEN 0
        ELSE IF bufferValidExtended < bufferEnd
        THEN bufferEnd - bufferValidExtended
        ELSE U(a.bufferPos - bufferStartUsed), LAMBDA wr2 :
    Let(IF ~atEnd THEN fo
        ELSE IF noMore THEN 0 ELSE LoopRestartOffset(a), LAMBDA ro2 :
    Let(IF U(ro2 + wr2) > a.first.filesize
        THEN U(a.first.filesize - ro2) ELSE wr2, LAMBDA wr3 :
    Let(U(off2 + wr3) > a.bufferMaxSize, LAMBDA tooMany :
    [a |-> [a EXCEPT !.first.offset = IF tooMany THEN 0 ELSE off2,
                     !.first.writableBytes =
                         IF tooMany THEN a.bufferMaxSize ELSE wr3],
     readOffset |-> ro2]))))))))

\* the ring cursors SetData gives a streamed state
SetDataRing(a) ==
    IF a.bufferState \in {ATRAC_STATUS_STREAMED_WITHOUT_LOOP,
                          ATRAC_STATUS_STREAMED_LOOP_FROM_END,
                          ATRAC_STATUS_STREAMED_LOOP_WITH_TRAILER}
    THEN [a EXCEPT !.bufferHeaderSize = U(a.dataOff),
                   !.bufferPos = U(a.dataOff + a.bytesPerFrame),
                   !.bufferValidBytes =
                       U(a.first.size - U(a.dataOff + a.bytesPerFrame))]
    ELSE a

SetData(a, buffer, readSize, bufferSize, successCode) ==
    LET size == IF readSize > a.first.filesize THEN a.first.filesize ELSE readSize
        a1 == [a EXCEPT !.first.addr = buffer, !.first.size = size,
                        !.first.fileoffset = size, !.first.offset = size,
                        !.bufferMaxSize = bufferSize]
        a2 == UpdateBufferState(ResetData(a1))
    IN  IF a2.codecType # PSP_MODE_AT_3 /\ a2.codecType # PSP_MODE_AT_3_PLUS
        THEN [a |-> [a2 EXCEPT !.bufferState = ATRAC_STATUS_NO_DATA],
              r |-> "ATRAC_ERROR_UNKNOWN_FORMAT"]
        ELSE LET a3 == IF a2.bufferState \in {ATRAC_STATUS_ALL_DATA_LOADED,
                                              ATRAC_STATUS_HALFWAY_BUFFER}
                       THEN [a2 EXCEPT !.ignoreDataBuf = TRUE] ELSE a2
                 a4 == SetDataRing(a3)
             IN  [a |-> CreateDecoder([a4 EXCEPT !.hasDataBuf = TRUE]),
                  r |-> successCode]

\* the frames SeekToSample feeds the decoder: the first one's offset, how many
SeekPrefill(a, sample) ==
    LET offsetSamples == S(a.firstSampleOffset + FirstOffsetExtra(a))
        adjust == IF sample = 0
                  THEN -S(U(offsetSamples) % SamplesPerFrame(a)) ELSE 0
        off == FileOffsetBySample(a, S(sample + adjust))
        backfill == a.bytesPerFrame * 2
        start == IF U(off - a.dataOff) < backfill THEN U(a.dataOff)
                                                  ELSE U(off - backfill)
    IN  [start |-> start, off |-> off,
         count |-> IF start < off
                   THEN (off - start + a.bytesPerFrame - 1) \div a.bytesPerFrame
                   ELSE 0]

\* a.seek records what the call did to the decoder: whether it flushed the
\* decoder's history, and the frames it fed
SeekToSample(a, sample) ==
    IF (sample # a.currentSample \/ sample = 0) /\ a.decoder
    THEN LET f == SeekPrefill(a, sample)
         IN  [a EXCEPT !.currentSample = sample,
                       !.seek = [flushed |-> TRUE, start |-> f.start,
                                 count |-> f.count]]
    ELSE [a EXCEPT !.currentSample = sample,
                   !.seek = [flushed |-> FALSE, start |-> 0, count |-> 0]]

ForceSeekToSample(a, sample) ==
    [a EXCEPT !.currentSample = sample,
              !.seek = [flushed |-> a.decoder, start |-> 0, count |-> 0]]

RemainingFrames(a) ==
    IF a.bufferState = ATRAC_STATUS_ALL_DATA_LOADED
    THEN PSP_ATRAC_ALLDATA_IS_ON_MEMORY
    ELSE
    LET currentFileOffset ==
            FileOffsetBySample(a, S(a.currentSample - SamplesPerFrame(a)
                                      + FirstOffsetExtra(a)))
        loopEndAdjusted ==
            S(a.loopEndSample - FirstOffsetExtra(a) - a.firstSampleOffset)
        atEnd == a.first.fileoffset >= a.first.filesize
        remainingBytes == S(a.first.fileoffset - currentFileOffset)
    IN  IF atEnd /\ a.bufferState = ATRAC_STATUS_STREAMED_WITHOUT_LOOP
        THEN PSP_ATRAC_NONLOOP_STREAM_DATA_IS_ON_MEMORY
        ELSE IF atEnd /\ a.bufferState = ATRAC_STATUS_STREAMED_LOOP_WITH_TRAILER
                      /\ a.currentSample > loopEndAdjusted
        THEN PSP_ATRAC_NONLOOP_STREAM_DATA_IS_ON_MEMORY
        ELSE IF atEnd /\ IsStreamed(a.bufferState) /\ a.loopNum = 0
        THEN PSP_ATRAC_LOOP_STREAM_DATA_IS_ON_MEMORY
        ELSE IF IsStreamed(a.bufferState)
        THEN S(a.bufferValidBytes \div a.bytesPerFrame)
        ELSE IF remainingBytes < 0 THEN 0
        ELSE remainingBytes \div a.bytesPerFrame

\* a faulty variant of AddTooBig: one byte too many is let through
AddTooBigLax(a, bytesToAdd) == bytesToAdd > a.first.writableBytes + 1

\* bytesToAdd > first_.writableBytes, on the object CalculateStreamInfo left
AddTooBig(a, bytesToAdd) == bytesToAdd > a.first.writableBytes

\* a faulty variant of FileLoaded: a resident size equal to the file size
\* does not count
FileLoadedBeyond(size, filesize) == size > filesize

\* first_.size >= first_.filesize: the resident size has reached the file size
FileLoaded(size, filesize) == size >= filesize

\* loopHack: the AtracLoopHack compatibility flag of the running game
AddStreamData(a, bytesToAdd, loopHack) ==
    Let(CalculateStreamInfo(a), LAMBDA c :
    Let(c.a, LAMBDA a1 :
    IF AddTooBig(a1, bytesToAdd)
    THEN [a |-> a1, r |-> "ATRAC_ERROR_ADD_DATA_IS_TOO_BIG"]
    ELSE
    Let(S(Min(bytesToAdd, U(a1.first.filesize - c.readOffset))),
        LAMBDA addbytes :
    Let(U(a1.first.size + bytesToAdd), LAMBDA size1 :
    Let(FileLoaded(size1, a1.first.filesize), LAMBDA full :
    Let([a1 EXCEPT !.first.fileoffset =
                       IF bytesToAdd > 0 THEN U(c.readOffset + addbytes)
                                         ELSE @,
                   !.first.size = IF full THEN a1.first.filesize ELSE size1,
                   !.bufferState =
                       IF full /\ @ = ATRAC_STATUS_HALFWAY_BUFFER
                       THEN ATRAC_STATUS_ALL_DATA_LOADED ELSE @],
        LAMBDA a3 :
    Let(IF full THEN WriteContextToPSPMem(a3) ELSE a3, LAMBDA a4 :
    Let([a4 EXCEPT !.first.offset = U(@ + bytesToAdd),
                   !.bufferValidBytes = U(@ + bytesToAdd)], LAMBDA a5 :
    IF loopHack
       /\ a5.bufferState = ATRAC_STATUS_STREAMED_LOOP_FROM_END
       /\ RemainingFrames(a5) > 2
    THEN [a |-> SeekToSample([a5 EXCEPT !.loopNum = S(@ + 1)],
                             LoopStartAdjusted(a5)),
          r |-> "OK"]
    ELSE [a |-> a5, r |-> "OK"]))))))))

\* bufPtr is where the bytes are copied from
AddStreamDataSas(a, bufPtr, bytesToAdd) ==
    Let(S(Min(bytesToAdd,
              U(a.first.filesize - a.first.fileoffset - FirstOffsetExtra(a)))),
        LAMBDA addbytes :
    Let(U(a.first.size + bytesToAdd), LAMBDA size1 :
    Let(size1 >= a.first.filesize, LAMBDA full :
    [a |-> WriteContextToPSPMem(
              [a EXCEPT !.first.size = IF full THEN a.first.filesize
                                               ELSE size1,
                        !.bufferState =
                            IF full /\ @ = ATRAC_STATUS_HALFWAY_BUFFER
                            THEN ATRAC_STATUS_ALL_DATA_LOADED ELSE @,
                        !.first.fileoffset = U(@ + addbytes)]),
     r |-> "OK"])))

\* a faulty variant of SetSecondBuffer: the buffer state is tested first
SetSecondBufferStateFirst(a, secondBuffer, secondBufferSize) ==
    LET secondFileOffset ==
            FileOffsetBySample(a, S(a.loopEndSample - a.firstSampleOffset))
        desiredSize == U(a.first.filesize - secondFileOffset)
    IN  IF a.bufferState # ATRAC_STATUS_STREAMED_LOOP_WITH_TRAILER
        THEN [a |-> a, r |-> "ATRAC_ERROR_SECOND_BUFFER_NOT_NEEDED"]
        ELSE IF secondBufferSize < desiredSize
                /\ secondBufferSize < U(a.bytesPerFrame * 3)
        THEN [a |-> a, r |-> "ATRAC_ERROR_SIZE_TOO_SMALL"]
        ELSE [a |-> [a EXCEPT !.second.addr = secondBuffer,
                              !.second.size = secondBufferSize,
                              !.second.fileoffset = secondFileOffset],
              r |-> "OK"]

\* a faulty variant of SetSecondBuffer: a size below either bound is refused
SetSecondBufferEither(a, secondBuffer, secondBufferSize) ==
    LET secondFileOffset ==
            FileOffsetBySample(a, S(a.loopEndSample - a.firstSampleOffset))
        desiredSize == U(a.first.filesize - secondFileOffset)
    IN  IF secondBufferSize < desiredSize
           \/ secondBufferSize < U(a.bytesPerFrame * 3)
        THEN [a |-> a, r |-> "ATRAC_ERROR_SIZE_TOO_SMALL"]
        ELSE IF a.bufferState # ATRAC_STATUS_STREAMED_LOOP_WITH_TRAILER
        THEN [a |-> a, r |-> "ATRAC_ERROR_SECOND_BUFFER_NOT_NEEDED"]
        ELSE [a |-> [a EXCEPT !.second.addr = secondBuffer,
                              !.second.size = secondBufferSize,
                              !.second.fileoffset = secondFileOffset],
              r |-> "OK"]

\* r: the result code; the secondary descriptor is set on success only
SetSecondBuffer(a, secondBuffer, secondBufferSize) ==
    LET secondFileOffset ==
            FileOffsetBySample(a, S(a.loopEndSample - a.firstSampleOffset))
        desiredSize == U(a.first.filesize - secondFileOffset)
    IN  IF secondBufferSize < desiredSize
           /\ secondBufferSize < U(a.bytesPerFrame * 3)
        THEN [a |-> a, r |-> "ATRAC_ERROR_SIZE_TOO_SMALL"]
        ELSE IF a.bufferState # ATRAC_STATUS_STREAMED_LOOP_WITH_TRAILER
        THEN [a |-> a, r |-> "ATRAC_ERROR_SECOND_BUFFER_NOT_NEEDED"]
        ELSE [a |-> [a EXCEPT !.second.addr = secondBuffer,
                              !.second.size = secondBufferSize,
                              !.second.fileoffset = secondFileOffset],
              r |-> "OK"]

\* a faulty variant of ConsumeFrame: a cursor at or past the ring's end is
\* set to 0
ConsumeFrameToZero(a) ==
    LET pos == U(a.bufferPos + a.bytesPerFrame)
        valid == IF IsStreamed(a.bufferState)
                 THEN IF a.bufferValidBytes > a.bytesPerFrame
                      THEN a.bufferValidBytes - a.bytesPerFrame ELSE 0
                 ELSE a.bufferValidBytes
        a1 == [a EXCEPT !.bufferPos = pos, !.bufferValidBytes = valid]
    IN  IF pos >= StreamBufferEnd(a1)
        THEN [a1 EXCEPT !.bufferPos = 0, !.bufferHeaderSize = 0]
        ELSE a1

ConsumeFrame(a) ==
    LET pos == U(a.bufferPos + a.bytesPerFrame)
        valid == IF IsStreamed(a.bufferState)
                 THEN IF a.bufferValidBytes > a.bytesPerFrame
                      THEN a.bufferValidBytes - a.bytesPerFrame ELSE 0
                 ELSE a.bufferValidBytes
        a1 == [a EXCEPT !.bufferPos = pos, !.bufferValidBytes = valid]
    IN  IF pos >= StreamBufferEnd(a1)
        THEN [a1 EXCEPT !.bufferPos = U(pos - StreamBufferEnd(a1)),
                        !.bufferHeaderSize = 0]
        ELSE a1

SetLoopNum(a, loopNum) ==
    LET a1 == [a EXCEPT !.loopNum = loopNum]
        a2 == IF loopNum # 0 /\ Len(a1.loopinfo) = 0
              THEN [a1 EXCEPT
                      !.loopStartSample =
                          S(a1.firstSampleOffset + FirstOffsetExtra(a1)),
                      !.loopEndSample =
                          S(a1.endSample + a1.firstSampleOffset
                              + FirstOffsetExtra(a1))]
              ELSE a1
    IN  WriteContextToPSPMem(a2)

\* a faulty variant of GetNextSamples: the result is not clamped to a frame
GetNextSamplesUnclamped(a) ==
    LET spf == SamplesPerFrame(a)
        skipSamples == U(a.firstSampleOffset + FirstOffsetExtra(a))
        firstSamples == U(spf - skipSamples) % spf
        n0 == U(a.endSample + 1 - a.currentSample)
        n1 == IF a.currentSample = 0 /\ firstSamples # 0 THEN firstSamples ELSE n0
        unalignedSamples == U(skipSamples + a.currentSample) % spf
        numSamples == IF unalignedSamples # 0 THEN spf - unalignedSamples ELSE n1
    IN  [a |-> IF a.bufferState = ATRAC_STATUS_STREAMED_LOOP_FROM_END
                  /\ S(S(numSamples) + a.currentSample) > a.endSample
               THEN [a EXCEPT !.bufferState = ATRAC_STATUS_ALL_DATA_LOADED]
               ELSE a,
         r |-> numSamples]

GetNextSamples(a) ==
    LET spf == SamplesPerFrame(a)
        skipSamples == U(a.firstSampleOffset + FirstOffsetExtra(a))
        firstSamples == U(spf - skipSamples) % spf
        n0 == U(a.endSample + 1 - a.currentSample)
        n1 == IF a.currentSample = 0 /\ firstSamples # 0 THEN firstSamples ELSE n0
        unalignedSamples == U(skipSamples + a.currentSample) % spf
        n2 == IF unalignedSamples # 0 THEN spf - unalignedSamples ELSE n1
        numSamples == IF n2 > spf THEN spf ELSE n2
    IN  [a |-> IF a.bufferState = ATRAC_STATUS_STREAMED_LOOP_FROM_END
                  /\ S(S(numSamples) + a.currentSample) > a.endSample
               THEN [a EXCEPT !.bufferState = ATRAC_STATUS_ALL_DATA_LOADED]
               ELSE a,
         r |-> numSamples]

\* C++ remainder of ints: the sign of the dividend
TruncRem(x, d) == x - d * TruncDiv(x, d)

\* the first-buffer and second-buffer parts of AtracResetBufferInfo
GetResetBufferInfo(a, sample) ==
    LET second == [writePosPtr |-> a.first.addr, writableBytes |-> 0,
                   minWriteBytes |-> 0, filePos |-> 0]
    IN
    IF a.bufferState = ATRAC_STATUS_ALL_DATA_LOADED
    THEN [first |-> [writePosPtr |-> a.first.addr, writableBytes |-> 0,
                     minWriteBytes |-> 0, filePos |-> 0],
          second |-> second]
    ELSE IF a.bufferState = ATRAC_STATUS_HALFWAY_BUFFER
    THEN LET minWriteBytes == S(FileOffsetBySample(a, sample) - a.first.size)
         IN  [first |-> [writePosPtr |-> U(a.first.addr + a.first.size),
                         writableBytes |-> U(a.first.filesize - a.first.size),
                         minWriteBytes |-> IF minWriteBytes > 0
                                           THEN minWriteBytes ELSE 0,
                         filePos |-> a.first.size],
              second |-> second]
    ELSE
    LET spf == SamplesPerFrame(a)
        sampleFileOffset ==
            S(FileOffsetBySample(a, S(sample - a.firstSampleOffset - spf)))
        bufSizeAligned ==
            U((a.bufferMaxSize \div a.bytesPerFrame) * a.bytesPerFrame)
        needsMoreFrames == FirstOffsetExtra(a)
        late == TruncRem(S(sample + a.firstSampleOffset), spf)
                    >= spf - needsMoreFrames
        early == U(sample) < U(a.firstSampleOffset)
                    /\ sampleFileOffset # a.dataOff
    IN  [first |-> [writePosPtr |-> a.first.addr,
                    writableBytes |->
                        Min(U(a.first.filesize - sampleFileOffset),
                            bufSizeAligned),
                    minWriteBytes |-> IF late THEN U(a.bytesPerFrame * 3)
                                              ELSE U(a.bytesPerFrame * 2),
                    filePos |-> IF early
                                THEN U(sampleFileOffset - a.bytesPerFrame)
                                ELSE U(sampleFileOffset)],
         second |-> second]

\* a faulty variant of ResetFailure: the file offset has moved by the time
\* the call is refused
ResetFailureMoved(a, code) ==
    [a |-> [a EXCEPT !.first.fileoffset = U(@ + a.bytesPerFrame)], r |-> code]

\* ResetPlayPosition refuses the call: it returns before any assignment
ResetFailure(a, code) == [a |-> a, r |-> code]

ResetPlayPosition(a, sample, bytesWrittenFirstBuf, bytesWrittenSecondBuf) ==
    LET bufferInfo == GetResetBufferInfo(a, sample)
        w1 == U(bytesWrittenFirstBuf)
        w2 == U(bytesWrittenSecondBuf)
        seek(b) == IF b.codecType = PSP_MODE_AT_3
                      \/ b.codecType = PSP_MODE_AT_3_PLUS
                   THEN SeekToSample(b, sample) ELSE b
        done(b) == [a |-> WriteContextToPSPMem(seek(b)), r |-> "OK"]
    IN
    IF w1 < bufferInfo.first.minWriteBytes \/ w1 > bufferInfo.first.writableBytes
    THEN ResetFailure(a, "ATRAC_ERROR_BAD_FIRST_RESET_SIZE")
    ELSE IF w2 < bufferInfo.second.minWriteBytes
            \/ w2 > bufferInfo.second.writableBytes
    THEN ResetFailure(a, "ATRAC_ERROR_BAD_SECOND_RESET_SIZE")
    ELSE IF a.bufferState = ATRAC_STATUS_ALL_DATA_LOADED
    THEN done(a)
    ELSE IF a.bufferState = ATRAC_STATUS_HALFWAY_BUFFER
    THEN LET a1 == IF bytesWrittenFirstBuf # 0
                   THEN [a EXCEPT !.first.fileoffset = U(@ + w1),
                                  !.first.size = U(@ + w1),
                                  !.first.offset = U(@ + w1)]
                   ELSE a
             a2 == IF a1.first.size >= a1.first.filesize
                   THEN [a1 EXCEPT !.first.size = a1.first.filesize,
                                   !.bufferState = ATRAC_STATUS_ALL_DATA_LOADED]
                   ELSE a1
         IN  done(a2)
    ELSE IF bufferInfo.first.filePos > a.first.filesize
    THEN ResetFailure(a, "ATRAC_ERROR_API_FAIL")
    ELSE LET fo == U(bufferInfo.first.filePos + w1)
         IN  done([a EXCEPT !.first.fileoffset = fo,
                            !.first.size = fo,
                            !.first.offset = w1,
                            !.bufferHeaderSize = 0,
                            !.bufferPos = a.bytesPerFrame,
                            !.bufferValidBytes = U(w1 - a.bytesPerFrame)])

\* a faulty variant of CountRestart: the last restart is not counted
CountRestartLate(a) ==
    IF a.bufferState # ATRAC_STATUS_FOR_SCESAS /\ a.loopNum > 1
    THEN [a EXCEPT !.loopNum = @ - 1] ELSE a

\* a faulty variant of CountRestart: a negative loop count is counted down
\* as well
CountRestartAlways(a) ==
    IF a.bufferState # ATRAC_STATUS_FOR_SCESAS /\ a.loopNum # 0
    THEN [a EXCEPT !.loopNum = @ - 1] ELSE a

\* a restart of the loop takes one off a positive loop count
CountRestart(a) ==
    IF a.bufferState # ATRAC_STATUS_FOR_SCESAS /\ a.loopNum > 0
    THEN [a EXCEPT !.loopNum = @ - 1] ELSE a

\* a faulty variant of DecodeFinished: finish is left as the caller had it
DecodeFinishedSilently(a, out) ==
    [a |-> WriteContextToPSPMem(a), r |-> "ATRAC_ERROR_ALL_DATA_DECODED",
     samples |-> 0, finish |-> out.finish, remains |-> out.remains,
     looped |-> FALSE, failed |-> FALSE]

\* a faulty variant of DecodeFinished: a positive loop count is counted down
\* on the way out
DecodeFinishedCounting(a, out) ==
    [a |-> WriteContextToPSPMem([a EXCEPT !.loopNum =
                                    IF @ > 0 THEN @ - 1 ELSE @]),
     r |-> "ATRAC_ERROR_ALL_DATA_DECODED",
     samples |-> 0, finish |-> 1, remains |-> out.remains,
     looped |-> FALSE, failed |-> FALSE]

\* what DecodeData does past the end of the track
DecodeFinished(a, out) ==
    [a |-> WriteContextToPSPMem(a), r |-> "ATRAC_ERROR_ALL_DATA_DECODED",
     samples |-> 0, finish |-> 1, remains |-> out.remains,
     looped |-> FALSE, failed |-> FALSE]

\* a faulty variant of HitEnd: a call that produces nothing is not taken
\* for the end
HitEndBySample(a, numSamples) ==
    a.currentSample >= a.endSample

\* the end of the track: the end sample is reached, or nothing was produced
\* with the whole file loaded
HitEnd(a, numSamples) ==
    \/ a.currentSample >= a.endSample
    \/ (numSamples = 0 /\ a.first.size >= a.first.filesize)

\* the loop count DecodeData goes by
DecodeLoopNum(a) ==
    IF a.bufferState = ATRAC_STATUS_FOR_SCESAS THEN 0 ELSE a.loopNum

\* out: the caller's SamplesNum, finish and remains before the call.
\* decoded: whether the decoder decodes the frame it is handed; a frame that
\* decodes yields SamplesPerFrame() samples.  looped: the call restarted the
\* loop.
DecodeData(a, out, decoded) ==
    LET loopNum == DecodeLoopNum(a)
        spf == SamplesPerFrame(a)
        isAtrac == a.codecType = PSP_MODE_AT_3
                     \/ a.codecType = PSP_MODE_AT_3_PLUS
        offsetSamples == S(a.firstSampleOffset + FirstOffsetExtra(a))
    IN
    IF a.currentSample >= a.endSample /\ loopNum = 0
    THEN DecodeFinished(a, out)
    ELSE
    Let(U(offsetSamples + a.currentSample) % spf, LAMBDA unalignedSamples :
    Let(IF unalignedSamples # 0 THEN spf - unalignedSamples
        ELSE U(a.endSample + 1 - a.currentSample), LAMBDA maxSamples :
    Let(IF unalignedSamples # 0 THEN unalignedSamples ELSE 0,
        LAMBDA skipSamples :
    Let(IF skipSamples # 0 /\ a.bufferHeaderSize = 0
        THEN ConsumeFrame(a) ELSE a, LAMBDA a1 :
    Let(IF isAtrac THEN SeekToSample(a1, a1.currentSample) ELSE a1,
        LAMBDA a2 :
    Let(isAtrac /\ FileOffsetBySample(a2, S(a2.currentSample - skipSamples))
                      < a2.first.size, LAMBDA handed :
    IF handed /\ ~decoded
    THEN [a |-> a2, r |-> "ATRAC_ERROR_ALL_DATA_DECODED",
          samples |-> 0, finish |-> 1, remains |-> out.remains,
          looped |-> FALSE, failed |-> TRUE]
    ELSE
    Let(IF handed THEN Min(maxSamples, U(spf - Min(skipSamples, spf)))
        ELSE IF isAtrac /\ a2.currentSample < a2.endSample
                /\ FileOffsetBySample(a2, a2.currentSample)
                     < a2.first.filesize
        THEN Min(maxSamples, spf)
        ELSE 0, LAMBDA numSamples :
    Let(S(a2.currentSample + numSamples), LAMBDA cur :
    Let(ConsumeFrame([a2 EXCEPT !.currentSample = cur,
                                !.decodePos = DecodePosBySample(a2, cur)]),
        LAMBDA a3 :
    Let(HitEnd(a3, numSamples), LAMBDA hitEnd :
    Let((hitEnd \/ a3.currentSample
                     > S(a3.loopEndSample - FirstOffsetExtra(a3)
                           - a3.firstSampleOffset))
          /\ loopNum # 0, LAMBDA restart :
    Let(CountRestart(SeekToSample(a3, LoopStartAdjusted(a3))), LAMBDA a5 :
    Let(LoopRestartOffset(a5), LAMBDA loopOffset :
    Let(IF restart
        THEN IF IsStreamed(a5.bufferState)
                /\ (loopOffset > a5.first.fileoffset
                      \/ U(loopOffset + a5.bufferValidBytes)
                           < a5.first.fileoffset)
             THEN [a5 EXCEPT !.first.fileoffset = loopOffset] ELSE a5
        ELSE IF hitEnd
        THEN [a3 EXCEPT !.currentSample = S(@ + spf - numSamples)]
        ELSE a3, LAMBDA a7 :
    [a |-> WriteContextToPSPMem(a7), r |-> "OK",
     samples |-> numSamples,
     finish |-> IF ~restart /\ hitEnd THEN 1 ELSE 0,
     remains |-> RemainingFrames(a7),
     looped |-> restart, failed |-> FALSE]))))))))))))))

-----------------------------------------------------------------------------
(* Save states.  A record is what DoState hands to Do() under a layout     *)
(* version: the fields of that layout, the fields later layouts added      *)
(* being absent (zero here: no reader of the layout reads them).  info is  *)
(* the guest record, which the memory image of the save state carries.     *)

CurrentLayout == 9

\* the record DoState writes of a under layout s; the current build writes
\* layout 9, earlier builds wrote the earlier ones
Record(a, s) ==
    [version |-> s,
     channels |-> a.channels,
     outputChannels |-> a.outputChannels,
     jointStereo |-> IF s >= 5 THEN a.jointStereo ELSE 0,
     atracID |-> a.atracID,
     first |-> a.first,
     bufferMaxSize |-> a.bufferMaxSize,
     codecType |-> a.codecType,
     currentSample |-> a.currentSample,
     endSample |-> a.endSample,
     firstSampleOffset |-> a.firstSampleOffset,
     dataOff |-> IF s >= 3 THEN a.dataOff ELSE 0,
     hasDataBuf |-> a.hasDataBuf,
     second |-> a.second,
     decodePos |-> a.decodePos,
     bufferPos |-> IF s >= 4 THEN a.bufferPos ELSE 0,
     bitrate |-> a.bitrate,
     bytesPerFrame |-> a.bytesPerFrame,
     loopinfo |-> a.loopinfo,
     loopStartSample |-> a.loopStartSample,
     loopEndSample |-> a.loopEndSample,
     loopNum |-> a.loopNum,
     context |-> a.context,
     info |-> a.info,
     bufferState |-> IF s >= 6 THEN a.bufferState ELSE 0,
     ignoreDataBuf |-> IF s >= 7 THEN a.ignoreDataBuf ELSE FALSE,
     bufferValidBytes |-> IF s >= 9 THEN a.bufferValidBytes ELSE 0,
     bufferHeaderSize |-> IF s >= 9 THEN a.bufferHeaderSize ELSE 0]

\* DoState in read mode: the object a after reading the record rec
DoStateRead(a, rec) ==
    LET s == rec.version
        a1 == [a EXCEPT
                 !.channels = rec.channels,
                 !.outputChannels = rec.outputChannels,
                 !.jointStereo = IF s >= 5 THEN rec.jointStereo ELSE @,
                 !.atracID = rec.atracID,
                 !.first = rec.first,
                 !.bufferMaxSize = rec.bufferMaxSize,
                 !.codecType = rec.codecType,
                 !.currentSample = rec.currentSample,
                 !.endSample = rec.endSample,
                 !.firstSampleOffset = rec.firstSampleOffset,
                 !.dataOff = IF s >= 3 THEN rec.dataOff
                                       ELSE rec.firstSampleOffset,
                 !.hasDataBuf = IF rec.hasDataBuf THEN TRUE ELSE @,
                 !.second = rec.second,
                 !.decodePos = rec.decodePos,
                 !.bufferPos = IF s >= 4 THEN rec.bufferPos ELSE rec.decodePos,
                 !.bitrate = rec.bitrate,
                 !.bytesPerFrame = rec.bytesPerFrame,
                 !.loopinfo = rec.loopinfo,
                 !.loopStartSample = rec.loopStartSample,
                 !.loopEndSample = rec.loopEndSample,
                 !.loopNum = rec.loopNum,
                 !.context = rec.context,
                 !.info = rec.info]
        a2 == IF s >= 6 THEN [a1 EXCEPT !.bufferState = rec.bufferState]
              ELSE IF ~a1.hasDataBuf
              THEN [a1 EXCEPT !.bufferState = ATRAC_STATUS_NO_DATA]
              ELSE UpdateBufferState(a1)
        a3 == [a2 EXCEPT !.ignoreDataBuf = IF s >= 7 THEN rec.ignoreDataBuf
                                                     ELSE FALSE]
        a4 == [a3 EXCEPT !.bufferHeaderSize = U(a3.dataOff)]
        a5 == IF s >= 9
              THEN [a3 EXCEPT !.bufferValidBytes = rec.bufferValidBytes,
                              !.bufferHeaderSize = rec.bufferHeaderSize]
              ELSE [a4 EXCEPT
                      !.bufferValidBytes =
                          Min(U(a4.first.size - a4.dataOff),
                              U(StreamBufferEnd(a4) - a4.dataOff)),
                      !.bufferPos = IF IsStreamed(a4.bufferState)
                                    THEN U(a4.dataOff) ELSE @]
        a6 == IF s < 8 /\ a5.bufferState = ATRAC_STATUS_STREAMED_LOOP_WITH_TRAILER
              THEN [a5 EXCEPT !.bufferState = ATRAC_STATUS_STREAMED_LOOP_FROM_END]
              ELSE a5
    IN  IF a6.bufferState # ATRAC_STATUS_NO_DATA THEN CreateDecoder(a6) ELSE a6

-----------------------------------------------------------------------------
(* Container parser.  A region of guest memory is a record: size, the byte  *)
(* count handed to Analyze; valid, whether its address is valid; cells, the *)
(* scalars stored in it, by byte offset from the region's start; room, the  *)
(* capacity of the guest buffer that starts there; chunks, the chunks the   *)
(* cells were laid out from; bytes, whether the cells are single bytes;     *)
(* filesize, the length of the file the region is the start of.            *)

Read_U32(m, off) == IF off \in DOMAIN m.cells THEN m.cells[off] ELSE 0

Read_U16(m, off) == IF off \in DOMAIN m.cells THEN m.cells[off] ELSE 0

\* The search for the WAVE magic (offset starts at 8).  seen: the offsets
\* the loop has tested.  r = "loops" stands for the loop coming back to an
\* offset it has tested, with the same memory: it never ends.
RECURSIVE WaveSearch(_, _, _, _)
WaveSearch(m, size, offset, seen) ==
    IF Read_U32(m, offset) = RIFF_WAVE_MAGIC
    THEN [r |-> "OK", offset |-> U(offset + 4)]
    ELSE IF offset \in seen THEN [r |-> "loops", offset |-> offset]
    ELSE
    LET chunk == S(Read_U32(m, U(offset - 4)))
        off1 == U(offset + chunk + (chunk % 2))
    IN  IF U(off1 + 12) > size
        THEN [r |-> "ATRAC_ERROR_SIZE_TOO_SMALL", offset |-> off1]
        ELSE IF Read_U32(m, off1) # RIFF_CHUNK_MAGIC
        THEN [r |-> "ATRAC_ERROR_UNKNOWN_FORMAT", offset |-> off1]
        ELSE WaveSearch(m, size, U(off1 + 8), seen \cup {offset})

ZeroLoop ==
    [cuePointID |-> 0, type |-> 0, startSample |-> 0, endSample |-> 0,
     fraction |-> 0, playCount |-> 0]

\* loopinfo_.resize(n)
Resize(loops, n) ==
    [i \in 1..n |-> IF i <= Len(loops) THEN loops[i] ELSE ZeroLoop]

\* case FMT_CHUNK_MAGIC; offset is the chunk's payload
FmtChunk(a, m, offset, chunkSize) ==
    LET fmtTag == Read_U16(m, offset)
        channels == Read_U16(m, U(offset + 2))
        samplerate == Read_U32(m, U(offset + 4))
        avgBytesPerSec == Read_U32(m, U(offset + 8))
        blockAlign == Read_U16(m, U(offset + 12))
        codec == IF fmtTag = AT3_MAGIC THEN PSP_MODE_AT_3 ELSE PSP_MODE_AT_3_PLUS
        a1 == [a EXCEPT !.codecType = codec]
        a2 == [a1 EXCEPT !.channels = channels]
        a3 == [a2 EXCEPT !.bitrate = U(avgBytesPerSec * 8),
                         !.bytesPerFrame = blockAlign]
    IN  IF a.codecType # 0
        THEN [a |-> a, r |-> "ATRAC_ERROR_UNKNOWN_FORMAT"]
        ELSE IF chunkSize < 32 \/ (fmtTag = AT3_PLUS_MAGIC /\ chunkSize < 52)
        THEN [a |-> a, r |-> "ATRAC_ERROR_UNKNOWN_FORMAT"]
        ELSE IF fmtTag # AT3_MAGIC /\ fmtTag # AT3_PLUS_MAGIC
        THEN [a |-> a, r |-> "ATRAC_ERROR_UNKNOWN_FORMAT"]
        ELSE IF channels # 1 /\ channels # 2
        THEN [a |-> a2, r |-> "ATRAC_ERROR_UNKNOWN_FORMAT"]
        ELSE IF samplerate # 44100
        THEN [a |-> a2, r |-> "ATRAC_ERROR_UNKNOWN_FORMAT"]
        ELSE IF blockAlign = 0
        THEN [a |-> a3, r |-> "ATRAC_ERROR_UNKNOWN_FORMAT"]
        ELSE IF fmtTag = AT3_MAGIC
        THEN [a |-> [a3 EXCEPT !.jointStereo = S(Read_U32(m, U(offset + 24)))],
              r |-> "OK"]
        ELSE [a |-> a3, r |-> "OK"]

\* a faulty variant of FactChunk: the end sample is read from the second
\* word of the chunk
FactChunkSecondWord(a, m, offset, chunkSize, adjust) ==
    [a |-> [a EXCEPT !.endSample = S(Read_U32(m, U(offset + 4)))],
     adjust |-> adjust]

\* case FACT_CHUNK_MAGIC; adjust is sampleOffsetAdjust
FactChunk(a, m, offset, chunkSize, adjust) ==
    LET a1 == [a EXCEPT !.endSample = S(Read_U32(m, offset))]
        a2 == IF chunkSize >= 8
              THEN [a1 EXCEPT !.firstSampleOffset = S(Read_U32(m, U(offset + 4)))]
              ELSE a1
    IN  [a |-> a2,
         adjust |-> IF chunkSize >= 12
                    THEN S(a2.firstSampleOffset - Read_U32(m, U(offset + 8)))
                    ELSE adjust]

\* a faulty variant of BadLoop: an empty loop is let through
BadLoopStrict(e) == e.startSample > e.endSample

\* a loop entry that does not start before its end
BadLoop(e) == e.startSample >= e.endSample

\* the loop over the smpl chunk's entries, from entry i (0-based)
RECURSIVE SmplLoops(_, _, _, _, _, _)
SmplLoops(a, m, addr, chunkSize, n, i) ==
    IF ~(i < n /\ U(36 + i) < chunkSize)
    THEN [a |-> a, r |-> "OK"]
    ELSE
    LET e == [cuePointID |-> S(Read_U32(m, addr)),
              type |-> S(Read_U32(m, U(addr + 4))),
              startSample |-> S(Read_U32(m, U(addr + 8))),
              endSample |-> S(Read_U32(m, U(addr + 12))),
              fraction |-> S(Read_U32(m, U(addr + 16))),
              playCount |-> S(Read_U32(m, U(addr + 20)))]
        a1 == [a EXCEPT !.loopinfo[i + 1] = e]
    IN  IF BadLoop(e)
        THEN [a |-> a1, r |-> "ATRAC_ERROR_BAD_CODEC_PARAMS"]
        ELSE SmplLoops(a1, m, U(addr + 24), chunkSize, n, i + 1)

\* case SMPL_CHUNK_MAGIC
SmplChunk(a, m, offset, chunkSize) ==
    LET checkNumLoops == S(Read_U32(m, U(offset + 28))) IN
    IF chunkSize < 32
    THEN [a |-> a, r |-> "ATRAC_ERROR_UNKNOWN_FORMAT"]
    ELSE IF checkNumLoops # 0 /\ chunkSize < 36 + 20
    THEN [a |-> a, r |-> "ATRAC_ERROR_UNKNOWN_FORMAT"]
    ELSE IF checkNumLoops < 0
    THEN [a |-> a, r |-> "ATRAC_ERROR_UNKNOWN_FORMAT"]
    ELSE SmplLoops([a EXCEPT !.loopinfo = Resize(a.loopinfo, checkNumLoops)],
                   m, U(offset + 36), chunkSize, checkNumLoops, 0)

\* case DATA_CHUNK_MAGIC
DataChunk(a, offset, chunkSize) ==
    LET a1 == [a EXCEPT !.dataOff = S(offset)]
    IN  IF a1.first.filesize < U(offset + chunkSize)
        THEN [a1 EXCEPT !.first.filesize = U(offset + chunkSize)]
        ELSE a1

\* The loop over the top-level chunks.  p: the object, the offset, maxSize,
\* bfoundData, dataChunkSize, sampleOffsetAdjust; r # 0 once a chunk failed.
RECURSIVE ChunkWalk(_, _)
ChunkWalk(p, m) ==
    IF ~(p.maxSize >= U(p.offset + 8) /\ ~p.bfoundData)
    THEN p
    ELSE
    LET chunkMagic == Read_U32(m, p.offset)
        size0 == Read_U32(m, U(p.offset + 4))
        chunkSize == U(size0 + (size0 % 2))
        offset == U(p.offset + 8)
    IN  IF chunkSize > U(p.maxSize - offset)
        THEN [p EXCEPT !.offset = offset]
        ELSE IF chunkMagic = FMT_CHUNK_MAGIC
        THEN LET f == FmtChunk(p.a, m, offset, chunkSize)
             IN  IF f.r # "OK" THEN [p EXCEPT !.a = f.a, !.r = f.r]
                 ELSE ChunkWalk([p EXCEPT !.a = f.a,
                                          !.offset = U(offset + chunkSize)], m)
        ELSE IF chunkMagic = FACT_CHUNK_MAGIC
        THEN LET f == FactChunk(p.a, m, offset, chunkSize, p.sampleOffsetAdjust)
             IN  ChunkWalk([p EXCEPT !.a = f.a, !.sampleOffsetAdjust = f.adjust,
                                     !.offset = U(offset + chunkSize)], m)
        ELSE IF chunkMagic = SMPL_CHUNK_MAGIC
        THEN LET f == SmplChunk(p.a, m, offset, chunkSize)
             IN  IF f.r # "OK" THEN [p EXCEPT !.a = f.a, !.r = f.r]
                 ELSE ChunkWalk([p EXCEPT !.a = f.a,
                                          !.offset = U(offset + chunkSize)], m)
        ELSE IF chunkMagic = DATA_CHUNK_MAGIC
        THEN [p EXCEPT !.a = DataChunk(p.a, offset, chunkSize),
                       !.bfoundData = TRUE, !.dataChunkSize = chunkSize,
                       !.offset = U(offset + chunkSize)]
        ELSE ChunkWalk([p EXCEPT !.offset = U(offset + chunkSize)], m)

\* what follows the loop over the chunks
AnalyzeFinish(p) ==
    LET a == p.a IN
    IF a.codecType = 0 THEN [a |-> a, r |-> "ATRAC_ERROR_UNKNOWN_FORMAT"]
    ELSE IF ~p.bfoundData THEN [a |-> a, r |-> "ATRAC_ERROR_SIZE_TOO_SMALL"]
    ELSE
    LET a1 == IF Len(a.loopinfo) > 0
              THEN [a EXCEPT
                      !.loopStartSample = S(a.loopinfo[1].startSample
                          + FirstOffsetExtra(a) + p.sampleOffsetAdjust),
                      !.loopEndSample = S(a.loopinfo[1].endSample
                          + FirstOffsetExtra(a) + p.sampleOffsetAdjust)]
              ELSE [a EXCEPT !.loopStartSample = -1, !.loopEndSample = -1]
        guessed == S(S((p.dataChunkSize \div a1.bytesPerFrame)
                          * SamplesPerFrame(a1))
                     - U(a1.firstSampleOffset + FirstOffsetExtra(a1)))
        a2 == IF a1.endSample <= 0 /\ a1.bytesPerFrame # 0
              THEN [a1 EXCEPT !.endSample = guessed] ELSE a1
        a3 == [a2 EXCEPT !.endSample = S(@ - 1)]
    IN  IF a3.loopEndSample # -1
           /\ a3.loopEndSample
                > S(a3.endSample + a3.firstSampleOffset + FirstOffsetExtra(a3))
        THEN [a |-> a3, r |-> "ATRAC_ERROR_BAD_CODEC_PARAMS"]
        ELSE [a |-> a3, r |-> "OK"]

\* a faulty variant of TooSmallForRiff: a region of 71 bytes is let through
TooSmallForRiffLax(size) == size < 71

\* 72 is about the size of the minimum required data to even be valid
TooSmallForRiff(size) == size < 72

\* Analyze(addr, size) on the region m at addr
Analyze(a, addr, m) ==
    LET a1 == AnalyzeReset([a EXCEPT !.first.addr = addr, !.first.size = m.size])
    IN
    IF TooSmallForRiff(a1.first.size)
    THEN [a |-> a1, r |-> "ATRAC_ERROR_SIZE_TOO_SMALL"]
    ELSE IF ~m.valid
    THEN [a |-> a1, r |-> "SCE_KERNEL_ERROR_ILLEGAL_ADDRESS"]
    ELSE IF Read_U32(m, 0) # RIFF_CHUNK_MAGIC
    THEN [a |-> a1, r |-> "ATRAC_ERROR_UNKNOWN_FORMAT"]
    ELSE
    LET a2 == [a1 EXCEPT !.firstSampleOffset = 0]
        w == WaveSearch(m, a2.first.size, 8, {})
    IN  IF w.r # "OK" THEN [a |-> a2, r |-> w.r]
        ELSE
        LET a3 == [a2 EXCEPT !.first.filesize =
                                 U(Read_U32(m, U(w.offset - 8)) + 8)]
            p == ChunkWalk([a |-> a3, r |-> "OK", offset |-> w.offset,
                            maxSize |-> Max(a3.first.filesize, a3.first.size),
                            bfoundData |-> FALSE, dataChunkSize |-> 0,
                            sampleOffsetAdjust |-> 0], m)
        IN  IF p.r # "OK" THEN [a |-> p.a, r |-> p.r] ELSE AnalyzeFinish(p)

-----------------------------------------------------------------------------
(* The AA3 container parser.  Its regions hold single bytes.               *)

Read_U8(m, off) == IF off \in DOMAIN m.cells THEN m.cells[off] % 256 ELSE 0

\* x | y on naturals
RECURSIVE BitOr(_, _)
BitOr(x, y) ==
    IF x = 0 THEN y
    ELSE IF y = 0 THEN x
    ELSE (IF x % 2 = 1 \/ y % 2 = 1 THEN 1 ELSE 0)
         + 2 * BitOr(x \div 2, y \div 2)

at3SampleRates == <<32000, 44100, 48000, 88200, 96000, 0, 0, 0>>

\* AnalyzeAA3(addr, size, filesize) on the region m at addr
AnalyzeAA3(a, addr, m, filesize) ==
    LET a1 == AnalyzeReset([a EXCEPT !.first.addr = addr,
                                     !.first.size = m.size,
                                     !.first.filesize = filesize])
        tagSize == U(BitOr(BitOr(Read_U8(m, 9), Read_U8(m, 8) * 128),
                           BitOr(Read_U8(m, 7) * 16384,
                                 Read_U8(m, 6) * 2097152)))
        ea3 == U(10 + tagSize)
        codecParams == BitOr(BitOr(Read_U8(m, U(ea3 + 35)),
                                   Read_U8(m, U(ea3 + 34)) * 256),
                             Read_U8(m, U(ea3 + 35)) * 65536)
        rate == at3SampleRates[((codecParams \div 8192) % 8) + 1]
        codec == Read_U8(m, U(ea3 + 32))
        bpf == IF codec = 0 THEN ((codecParams % 1024) * 8) % 65536
                            ELSE ((codecParams % 1024) * 8 + 8) % 65536
        a2 == IF codec = 0
              THEN [a1 EXCEPT !.codecType = PSP_MODE_AT_3,
                              !.bytesPerFrame = bpf,
                              !.bitrate = U(U(rate * bpf) * 8) \div 1024,
                              !.channels = 2,
                              !.jointStereo = (codecParams \div 131072) % 2]
              ELSE [a1 EXCEPT !.codecType = PSP_MODE_AT_3_PLUS,
                              !.bytesPerFrame = bpf,
                              !.bitrate = U(U(rate * bpf) * 8) \div 2048,
                              !.channels = (codecParams \div 1024) % 8]
        a3 == [a2 EXCEPT !.dataOff = S(10 + tagSize + 96),
                         !.firstSampleOffset = 0]
        a4 == IF a3.endSample < 0 /\ a3.bytesPerFrame # 0
              THEN [a3 EXCEPT !.endSample =
                        S((U(a3.first.filesize - a3.dataOff)
                             \div a3.bytesPerFrame) * SamplesPerFrame(a3))]
              ELSE a3
    IN
    IF a1.first.size < 10
    THEN [a |-> a1, r |-> "ATRAC_ERROR_AA3_SIZE_TOO_SMALL"]
    ELSE IF Read_U8(m, 0) # 101 \/ Read_U8(m, 1) # 97 \/ Read_U8(m, 2) # 51
    THEN [a |-> a1, r |-> "ATRAC_ERROR_AA3_INVALID_DATA"]
    ELSE IF a1.first.size < U(tagSize + 36)
    THEN [a |-> a1, r |-> "ATRAC_ERROR_AA3_SIZE_TOO_SMALL"]
    ELSE IF Read_U8(m, ea3) # 69 \/ Read_U8(m, U(ea3 + 1)) # 65
            \/ Read_U8(m, U(ea3 + 2)) # 51
    THEN [a |-> a1, r |-> "ATRAC_ERROR_AA3_INVALID_DATA"]
    ELSE IF codec \notin {0, 1}
    THEN [a |-> a1, r |-> "ATRAC_ERROR_AA3_INVALID_DATA"]
    ELSE [a |-> [a4 EXCEPT !.endSample = S(@ - 1)], r |-> "OK"]

-----------------------------------------------------------------------------
(* Guest memory images: RIFF/WAVE files laid out chunk by chunk, as the    *)
(* parser reads them.                                                      *)

NoCells == [o \in {} |-> 0]

\* chunks one after the other from offset, each: magic, size, payload
RECURSIVE LayChunks(_, _)
LayChunks(chunks, offset) ==
    IF chunks = <<>> THEN NoCells
    ELSE LET c == Head(chunks)
         IN  (offset :> c.magic) @@ ((offset + 4) :> c.size)
             @@ [o \in {offset + 8 + k : k \in DOMAIN c.cells}
                    |-> c.cells[o - offset - 8]]
             @@ LayChunks(Tail(chunks), offset + 8 + c.size + (c.size % 2))

RECURSIVE ChunksLength(_)
ChunksLength(chunks) ==
    IF chunks = <<>> THEN 0
    ELSE 8 + Head(chunks).size + (Head(chunks).size % 2)
         + ChunksLength(Tail(chunks))

\* a RIFF file of these chunks; size bytes of it are handed to Analyze, in a
\* buffer of room bytes
RiffImage(magic, chunks, size, room, valid) ==
    [size |-> size, valid |-> valid, room |-> room, chunks |-> chunks,
     bytes |-> FALSE, filesize |-> 12 + ChunksLength(chunks),
     cells |-> (0 :> magic) @@ (4 :> 4 + ChunksLength(chunks))
               @@ (8 :> RIFF_WAVE_MAGIC) @@ LayChunks(chunks, 12)]

FmtOf(tag, size, channels, rate, blockAlign, joint) ==
    [magic |-> FMT_CHUNK_MAGIC, size |-> size,
     cells |-> (0 :> tag) @@ (2 :> channels) @@ (4 :> rate)
               @@ (8 :> 16537) @@ (12 :> blockAlign) @@ (24 :> joint)]

FactOf(endSample, firstSampleOffset) ==
    [magic |-> FACT_CHUNK_MAGIC, size |-> 8,
     cells |-> (0 :> endSample) @@ (4 :> firstSampleOffset)]

\* loops: a sequence of <<start, end>>
SmplOf(loops) ==
    [magic |-> SMPL_CHUNK_MAGIC, size |-> 36 + 24 * Len(loops),
     cells |-> (28 :> Len(loops))
               @@ [o \in UNION {{36 + 24 * (i - 1) + 8, 36 + 24 * (i - 1) + 12}
                                  : i \in DOMAIN loops}
                     |-> LET i == ((o - 36) \div 24) + 1
                         IN  IF (o - 36) % 24 = 8 THEN loops[i][1]
                                                  ELSE loops[i][2]]]

DataOf(size) ==
    [magic |-> DATA_CHUNK_MAGIC, size |-> size, cells |-> NoCells]

-----------------------------------------------------------------------------
(* The tracks the buffer state machine is run on: ATRAC3 files of          *)
(* TrackFrames frames, with no loop, a loop to the end of the track, or a  *)
(* loop that ends before it.                                               *)

TrackFrames == 3

BlockAligns == {8}

\* the samples of a track of n frames whose first sample offset is fso
TrackSamples(n, fso) == n * ATRAC3_MAX_SAMPLES - 69 - fso

TrackChunks(kind, frames, blockAlign, fso) ==
    LET fmt == FmtOf(AT3_MAGIC, 32, 2, 44100, blockAlign, 0)
        e == TrackSamples(frames, fso)
        fact == FactOf(e, fso)
        data == DataOf(frames * blockAlign)
    IN  CASE kind = "noloop" -> <<fmt, fact, data>>
          [] kind = "loopend" -> <<fmt, fact, SmplOf(<<<<fso, e - 1 + fso>>>>), data>>
          [] kind = "trailer" ->
                <<fmt, fact,
                  SmplOf(<<<<ATRAC3_MAX_SAMPLES, e - ATRAC3_MAX_SAMPLES>>>>), data>>

\* the offset of the data chunk's payload
DataOffOf(chunks) == 12 + ChunksLength(chunks) - chunks[Len(chunks)].size

TrackKinds == {"noloop", "loopend", "trailer"}

\* the buffer capacities SetData is given for a region of readSize bytes
BufferSizes(readSize, filesize) == {readSize, readSize + 5, filesize}

\* the regions SetData is given: the file's first size bytes
RingImages ==
    UNION {LET chunks == TrackChunks(k, TrackFrames, b, 0)
               dataOff == DataOffOf(chunks)
               filesize == 12 + ChunksLength(chunks)
           IN  UNION {{RiffImage(RIFF_CHUNK_MAGIC, chunks, size, room, TRUE)
                         : room \in BufferSizes(size, filesize)}
                        : size \in {72, dataOff + b - 1, dataOff + b,
                                    dataOff + 2 * b, filesize}}
             : k \in TrackKinds, b \in BlockAligns}

NoCall == [op |-> "new", arg |-> 0]

NoRet == [code |-> "OK", samples |-> 0, finish |-> 0, remains |-> 0]

\* What a run has done so far.  run: "armed" once SetLoopNum has followed
\* SetData, "mixed" once another call than DecodeData and GetNextSamples
\* has followed that; loopNum0: the count SetLoopNum was given;
\* restarts: the calls of DecodeData that restarted the loop since; fault: a
\* frame has failed to decode; finished: a call has reported finish = 1;
\* stray: the calls made with the ring cursors outside the ring; resets: the
\* calls of ResetPlayPosition; saves, loads: the calls of DoState in write
\* and in read mode; calls: the calls of DecodeData of a run that counts
\* them.
NoHist ==
    [run |-> "none", loopNum0 |-> 0, restarts |-> 0, fault |-> FALSE,
     finished |-> FALSE, stray |-> 0, resets |-> 0, saves |-> 0,
     loads |-> 0, calls |-> 0]

\* The valid bytes have left the ring: more than one wrap is outstanding.
Astray(a) ==
    /\ IsStreamed(a.bufferState)
    /\ a.bufferPos + a.bufferValidBytes > 2 * StreamBufferEnd(a)

\* A run is followed for MaxStray calls after its cursors have left the ring.
MaxStray == 2

Stray(h, a) == IF Astray(a) THEN [h EXCEPT !.stray = @ + 1] ELSE h

BufferAddr == 4096

-----------------------------------------------------------------------------
(* The buffer state machine: a track is analysed, SetData starts the load, *)
(* and then data is added and frames are consumed in any order.            *)

Init ==
    /\ atrac = NewAtrac
    /\ call = NoCall
    /\ ret = NoRet
    /\ hist = NoHist
    /\ mem \in RingImages
    /\ saved = <<>>

DoAnalyze ==
    /\ call.op = "new"
    /\ ~mem.bytes
    /\ LET x == Analyze(atrac, BufferAddr, mem)
       IN  /\ atrac' = x.a
           /\ ret' = [NoRet EXCEPT !.code = x.r]
    /\ call' = [op |-> "Analyze", arg |-> mem.size]
    /\ UNCHANGED <<hist, mem, saved>>

\* SetData(buffer, readSize, bufferSize) after a successful Analyze or
\* AnalyzeAA3 of the first readSize bytes of a buffer of mem.room bytes
DoSetData ==
    /\ call.op \in {"Analyze", "AnalyzeAA3"}
    /\ ret.code = "OK"
    /\ LET x == SetData(atrac, BufferAddr, mem.size, mem.room, "OK")
       IN  /\ atrac' = x.a
           /\ ret' = [NoRet EXCEPT !.code = x.r]
    /\ call' = [op |-> "SetData", arg |-> mem.room]
    /\ UNCHANGED <<hist, mem, saved>>

Loaded ==
    /\ atrac.bufferState # ATRAC_STATUS_NO_DATA
    /\ atrac.decoder
    /\ hist.stray < MaxStray

\* the compatibility flag: off unless a game's compatibility entry sets it
AtracLoopHack == FALSE

\* the byte counts AddStreamData is tried with
AddSizes(a) ==
    LET w == CalculateStreamInfo(a).a.first.writableBytes
    IN  {n \in {0, a.bytesPerFrame, w, w + 1} : n < WordMod}

DoAddStreamData ==
    /\ Loaded
    /\ \E n \in AddSizes(atrac) :
          /\ LET x == AddStreamData(atrac, n, AtracLoopHack)
             IN  /\ atrac' = x.a
                 /\ ret' = [NoRet EXCEPT !.code = x.r]
          /\ call' = [op |-> "AddStreamData", arg |-> n]
    /\ hist' = Stray(hist, atrac)
    /\ UNCHANGED <<mem, saved>>

DoConsumeFrame ==
    /\ Loaded
    /\ atrac' = ConsumeFrame(atrac)
    /\ ret' = NoRet
    /\ call' = [op |-> "ConsumeFrame", arg |-> 0]
    /\ hist' = Stray(hist, atrac)
    /\ UNCHANGED <<mem, saved>>

SecondAddr == 8192

\* the sizes SetSecondBuffer is tried with: around three frames, and around
\* the bytes from the loop end to the end of the file
SecondSizes(a) ==
    LET desired == U(a.first.filesize
                     - FileOffsetBySample(a, S(a.loopEndSample
                                                 - a.firstSampleOffset)))
    IN  {n \in {0, 3 * a.bytesPerFrame - 1, 3 * a.bytesPerFrame,
                desired - 1, desired} : n >= 0 /\ n < WordMod}

DoSetSecondBuffer ==
    /\ Loaded
    /\ \E n \in SecondSizes(atrac) :
          /\ LET x == SetSecondBuffer(atrac, SecondAddr, n)
             IN  /\ atrac' = x.a
                 /\ ret' = [NoRet EXCEPT !.code = x.r]
          /\ call' = [op |-> "SetSecondBuffer", arg |-> n]
    /\ UNCHANGED <<hist, mem, saved>>

Next == DoAnalyze \/ DoSetData \/ DoAddStreamData \/ DoConsumeFrame

Spec == Init /\ [][Next]_vars

-----------------------------------------------------------------------------
(* The second buffer: a track is analysed and loaded, and SetSecondBuffer  *)
(* and SetLoopNum are called on it.                                        *)

MaxLoopNum == 2

LoopNums == -1 .. MaxLoopNum

\* the loop count is set once SetData has loaded the track, before any
\* other call
DoSetLoopNum ==
    /\ Loaded
    /\ call.op = "SetData"
    /\ \E n \in LoopNums :
          /\ atrac' = SetLoopNum(atrac, n)
          /\ call' = [op |-> "SetLoopNum", arg |-> n]
          /\ hist' = [hist EXCEPT !.run = "armed", !.loopNum0 = n]
    /\ ret' = NoRet
    /\ UNCHANGED <<mem, saved>>

NextSecond == DoAnalyze \/ DoSetData \/ DoSetLoopNum \/ DoSetSecondBuffer

SpecSecond == Init /\ [][NextSecond]_vars

-----------------------------------------------------------------------------
(* The trailer: tracks whose loop ends well before the end of the file are *)
(* loaded into a buffer smaller than the file, and SetSecondBuffer and     *)
(* SetLoopNum are called on them.                                          *)

\* the frames of these tracks
TrailerFrames == 6

\* the samples their loops end at: in the first frame, and three frames on
TrailerLoopEnds == {100, 4000}

\* the start of such a file, in a buffer that holds no more or five bytes
\* more
TrailerImages ==
    UNION {LET chunks == <<FmtOf(AT3_MAGIC, 32, 2, 44100, 8, 0),
                           FactOf(TrackSamples(TrailerFrames, 0), 0),
                           SmplOf(<<<<0, le>>>>),
                           DataOf(TrailerFrames * 8)>>
               dataOff == DataOffOf(chunks)
           IN  {RiffImage(RIFF_CHUNK_MAGIC, chunks, size, room, TRUE)
                  : size \in {dataOff + 16, dataOff + 24},
                    room \in {dataOff + 24, dataOff + 29}}
             : le \in TrailerLoopEnds}

InitTrailer ==
    /\ atrac = NewAtrac
    /\ call = NoCall
    /\ ret = NoRet
    /\ hist = NoHist
    /\ mem \in TrailerImages
    /\ saved = <<>>

SpecTrailer == InitTrailer /\ [][NextSecond]_vars

-----------------------------------------------------------------------------
(* Decoding: a track is analysed and loaded, a loop count is set, and      *)
(* frames are decoded, with the next-samples query and play position       *)
(* resets in between.                                                      *)

\* the first sample offsets of the decoded tracks: none, and one that makes
\* the first sample start a frame
TrackOffsets == {0, ATRAC3_MAX_SAMPLES - 69}

\* whole files in a buffer that holds them, and their start in such a
\* buffer or in a buffer of that size
DecodeImages ==
    UNION {LET chunks == TrackChunks(k, TrackFrames, b, fso)
               dataOff == DataOffOf(chunks)
               filesize == 12 + ChunksLength(chunks)
           IN  {RiffImage(RIFF_CHUNK_MAGIC, chunks, filesize, filesize, TRUE),
                RiffImage(RIFF_CHUNK_MAGIC, chunks, dataOff + 2 * b,
                          IF fso = 0 THEN filesize ELSE dataOff + 2 * b,
                          TRUE)}
             : k \in TrackKinds, b \in BlockAligns, fso \in TrackOffsets}

InitDecode ==
    /\ atrac = NewAtrac
    /\ call = NoCall
    /\ ret = NoRet
    /\ hist = NoHist
    /\ mem \in DecodeImages
    /\ saved = <<>>

\* a run is followed for MaxRestarts restarts of the loop
MaxRestarts == 3

\* sceAtracDecodeData: SamplesNum, finish and remains start as zero
DoDecodeData ==
    /\ Loaded
    /\ hist.restarts < MaxRestarts
    /\ \E decoded \in BOOLEAN :
          LET x == DecodeData(atrac, NoRet, decoded)
          IN  /\ atrac' = x.a
              /\ ret' = [code |-> x.r, samples |-> x.samples,
                         finish |-> x.finish, remains |-> x.remains]
              /\ call' = [op |-> "DecodeData",
                          arg |-> IF x.looped THEN 1 ELSE 0]
              /\ hist' = [Stray(hist, atrac) EXCEPT
                            !.restarts = IF x.looped THEN @ + 1 ELSE @,
                            !.fault = @ \/ x.failed,
                            !.finished = @ \/ x.finish = 1]
    /\ UNCHANGED <<mem, saved>>

DoGetNextSamples ==
    /\ Loaded
    /\ LET x == GetNextSamples(atrac)
       IN  /\ atrac' = x.a
           /\ ret' = [NoRet EXCEPT !.samples = x.r]
    /\ call' = [op |-> "GetNextSamples", arg |-> 0]
    /\ UNCHANGED <<hist, mem, saved>>

\* the samples the play position is reset to
ResetSamples(a) == {0, 1, SamplesPerFrame(a)}

\* the byte counts a reset to sample is said to have written: the least
\* GetResetBufferInfo allows and one less, which is refused
ResetSizes(a, sample) ==
    LET b == GetResetBufferInfo(a, sample).first
    IN  {b.minWriteBytes, Max(b.minWriteBytes, 1) - 1}

\* a run is followed for MaxResets resets of the play position
MaxResets == 1

DoResetPlayPosition ==
    /\ Loaded
    /\ hist.resets < MaxResets
    /\ \E sample \in ResetSamples(atrac) :
       \E n \in ResetSizes(atrac, sample) :
          /\ LET x == ResetPlayPosition(atrac, sample, n, 0)
             IN  /\ atrac' = x.a
                 /\ ret' = [NoRet EXCEPT !.code = x.r]
          /\ call' = [op |-> "ResetPlayPosition", arg |-> sample]
    /\ hist' = [hist EXCEPT !.run = "mixed", !.resets = @ + 1]
    /\ UNCHANGED <<mem, saved>>

NextDecode ==
    \/ DoAnalyze
    \/ DoSetData
    \/ DoSetLoopNum
    \/ DoDecodeData
    \/ DoGetNextSamples
    \/ DoResetPlayPosition

SpecDecode == InitDecode /\ [][NextDecode]_vars

-----------------------------------------------------------------------------
(* The sound system: a track is analysed and loaded, a loop count is set,  *)
(* the context may be bound to a voice of the sound system, and data is    *)
(* added by the sound system's call and decoded.                           *)

\* the files the sound system is run on: whole in their buffer, and their
\* start in a buffer that holds them
SasImages ==
    UNION {LET chunks == TrackChunks(k, TrackFrames, 8, 0)
               dataOff == DataOffOf(chunks)
               filesize == 12 + ChunksLength(chunks)
           IN  {RiffImage(RIFF_CHUNK_MAGIC, chunks, filesize, filesize, TRUE),
                RiffImage(RIFF_CHUNK_MAGIC, chunks, dataOff + 8, filesize,
                          TRUE)}
             : k \in {"noloop", "loopend"}}

InitSas ==
    /\ atrac = NewAtrac
    /\ call = NoCall
    /\ ret = NoRet
    /\ hist = NoHist
    /\ mem \in SasImages
    /\ saved = <<>>

\* the context is bound to a voice: the sound system writes the state
\* ForSoundSystem into the guest record, and the object takes it from there
DoSasBind ==
    /\ Loaded
    /\ call.op \in {"SetData", "SetLoopNum"}
    /\ atrac' = [atrac EXCEPT !.bufferState = ATRAC_STATUS_FOR_SCESAS]
    /\ call' = [op |-> "SasBind", arg |-> 0]
    /\ ret' = NoRet
    /\ UNCHANGED <<hist, mem, saved>>

\* the byte counts AddStreamDataSas is tried with
SasSizes(a) == {0, a.bytesPerFrame, 2 * a.bytesPerFrame}

\* a run is followed until the file offset has left the file
DoAddStreamDataSas ==
    /\ Loaded
    /\ atrac.first.fileoffset <= atrac.first.filesize
    /\ \E n \in SasSizes(atrac) :
          /\ LET x == AddStreamDataSas(atrac, SecondAddr, n)
             IN  /\ atrac' = x.a
                 /\ ret' = [NoRet EXCEPT !.code = x.r]
          /\ call' = [op |-> "AddStreamDataSas", arg |-> n]
    /\ UNCHANGED <<hist, mem, saved>>

NextSas ==
    \/ DoAnalyze
    \/ DoSetData
    \/ DoSetLoopNum
    \/ DoSasBind
    \/ DoAddStreamDataSas
    \/ DoDecodeData

SpecSas == InitSas /\ [][NextSas]_vars

-----------------------------------------------------------------------------
(* Parsing: Analyze and AnalyzeAA3 are run on regions that are sound,      *)
(* truncated, mislabelled or malformed in one place, and SetData loads     *)
(* what was accepted.                                                      *)

\* the entries of the loop tables tried
MaxLoops == 3

\* a sound track of TrackFrames frames, with its fmt chunk replaced
TrackWithFmt(fmt) ==
    <<fmt, FactOf(TrackSamples(TrackFrames, 0), 0), DataOf(TrackFrames * 8)>>

SoundFmt == FmtOf(AT3_MAGIC, 32, 2, 44100, 8, 0)

\* a table of n sound loops, the entry bad (0: none) replaced by <<s, e>>
LoopTable(n, bad, s, e) ==
    [i \in 1..n |-> IF i = bad THEN <<s, e>> ELSE <<i, i + ATRAC3_MAX_SAMPLES>>]

\* the chunks of a sound track with a smpl chunk at place: "first", before
\* the fmt chunk; "middle", before the data chunk; "last", after it
SmplTrack(place, loops) ==
    LET fact == FactOf(TrackSamples(TrackFrames, 0), 0)
        data == DataOf(TrackFrames * 8)
        smpl == SmplOf(loops)
    IN  CASE place = "first" -> <<smpl, SoundFmt, fact, data>>
          [] place = "middle" -> <<SoundFmt, fact, smpl, data>>
          [] place = "last" -> <<SoundFmt, fact, data, smpl>>

WholeImage(magic, chunks, valid) ==
    RiffImage(magic, chunks, 12 + ChunksLength(chunks),
              12 + ChunksLength(chunks), valid)

\* regions with a smpl chunk at one of places, one of whose entries does
\* not start before its end
BadSmplImages(places) ==
    UNION {{WholeImage(RIFF_CHUNK_MAGIC,
                       SmplTrack(place, LoopTable(n, bad, 5, e)), TRUE)
              : place \in places, bad \in 1..n, e \in {4, 5}}
             : n \in 1..MaxLoops}

\* regions with a smpl chunk of sound entries
SoundSmplImages ==
    {WholeImage(RIFF_CHUNK_MAGIC, SmplTrack(place, LoopTable(n, 0, 0, 0)), TRUE)
       : place \in {"first", "middle", "last"}, n \in 0..MaxLoops}

\* regions that do not start with the RIFF magic, and regions of fewer than
\* 72 bytes
MislabelledImages ==
    {RiffImage(magic, chunks, size, size, valid)
       : magic \in {0, RIFF_WAVE_MAGIC, RIFF_CHUNK_MAGIC},
         chunks \in {<<>>, TrackWithFmt(SoundFmt)},
         size \in {0, 71, 72, 100},
         valid \in BOOLEAN}

\* regions malformed in one place of the fmt chunk, without a data chunk,
\* and with a loop that ends after the data
MalformedImages ==
    {WholeImage(RIFF_CHUNK_MAGIC, TrackWithFmt(fmt), TRUE)
       : fmt \in {FmtOf(AT3_MAGIC, 32, 3, 44100, 8, 0),
                  FmtOf(AT3_MAGIC, 32, 1, 48000, 8, 0),
                  FmtOf(AT3_MAGIC, 32, 2, 44100, 0, 0),
                  FmtOf(AT3_MAGIC, 16, 2, 44100, 8, 0),
                  FmtOf(AT3_PLUS_MAGIC, 32, 2, 44100, 8, 0),
                  FmtOf(1, 32, 2, 44100, 8, 0)}}
    \cup {WholeImage(RIFF_CHUNK_MAGIC, chunks, TRUE)
            : chunks \in
                {<<SoundFmt, SoundFmt, DataOf(TrackFrames * 8)>>,
                 <<SoundFmt, FactOf(TrackSamples(TrackFrames, 0), 0)>>,
                 <<FactOf(TrackSamples(TrackFrames, 0), 0),
                   DataOf(TrackFrames * 8)>>,
                 SmplTrack("middle",
                           <<<<0, TrackFrames * ATRAC3_MAX_SAMPLES>>>>)}}

\* an AA3 file: the ea3 tag header with its four size bytes, the EA3 header
\* with its codec byte and parameter bytes; size bytes of it are handed over
AA3Image(magic, sizeBytes, header, codec, params, size, filesize) ==
    LET tagSize == sizeBytes[4] + 128 * sizeBytes[3]
        ea3 == 10 + tagSize
    IN  [size |-> size, valid |-> TRUE, room |-> size, chunks |-> <<>>,
         bytes |-> TRUE, filesize |-> filesize,
         cells |-> (0 :> magic[1]) @@ (1 :> magic[2]) @@ (2 :> magic[3])
                   @@ (6 :> sizeBytes[1]) @@ (7 :> sizeBytes[2])
                   @@ (8 :> sizeBytes[3]) @@ (9 :> sizeBytes[4])
                   @@ (ea3 :> header[1]) @@ ((ea3 + 1) :> header[2])
                   @@ ((ea3 + 2) :> header[3]) @@ ((ea3 + 32) :> codec)
                   @@ ((ea3 + 34) :> params[1]) @@ ((ea3 + 35) :> params[2])]

AA3Images ==
    {AA3Image(magic, sizeBytes, header, codec, <<0, 1>>, size, 200)
       : magic \in {<<101, 97, 51>>, <<73, 68, 51>>},
         sizeBytes \in {<<0, 0, 0, 4>>, <<0, 0, 1, 0>>},
         header \in {<<69, 65, 51>>, <<69, 65, 52>>},
         codec \in {0, 1, 2, 3},
         size \in {9, 39, 200}}

\* the end sample counts a fact chunk declares: the least, that of the
\* scenario, the greatest positive int
FactEnds == {1, 100000, WordMod \div 2 - 1}

\* well-formed regions: a sound fmt chunk, a fact chunk declaring e samples
\* (and a first sample offset), no smpl chunk, a data chunk
FactImages ==
    {WholeImage(RIFF_CHUNK_MAGIC,
                <<fmt, FactOf(e, fso), DataOf(TrackFrames * 8)>>, TRUE)
       : fmt \in {FmtOf(AT3_MAGIC, 32, 1, 44100, 8, 0),
                  FmtOf(AT3_MAGIC, 32, 2, 44100, 8, 1),
                  FmtOf(AT3_PLUS_MAGIC, 52, 1, 44100, 8, 0),
                  FmtOf(AT3_PLUS_MAGIC, 52, 2, 44100, 16, 0)},
         e \in FactEnds, fso \in {0, 5}}

\* a region of size bytes that starts with the RIFF magic and these words
Region(size, cells) ==
    [size |-> size, valid |-> TRUE, room |-> size, chunks |-> <<>>,
     bytes |-> FALSE, filesize |-> size,
     cells |-> (0 :> RIFF_CHUNK_MAGIC) @@ cells]

\* the RIFF sizes of the regions without the WAVE magic at offset 8: -8, -7,
\* 0, 12 and one past the region, as 32-bit words
OuterSizes == {WordMod - 8, WordMod - 7, 0, 12, 200}

\* regions whose RIFF chunk is not a WAVE form: alone, and followed, 12 bytes
\* on, by a RIFF chunk of size -28, and by one that is a WAVE form of a track
NestedImages ==
    {Region(100, 4 :> n) : n \in OuterSizes}
        \cup {Region(100, (4 :> 12) @@ (20 :> RIFF_CHUNK_MAGIC)
                          @@ (24 :> WordMod - 28)),
              Region(32 + ChunksLength(TrackWithFmt(SoundFmt)),
                     (4 :> 12) @@ (20 :> RIFF_CHUNK_MAGIC)
                     @@ (24 :> 4 + ChunksLength(TrackWithFmt(SoundFmt)))
                     @@ (28 :> RIFF_WAVE_MAGIC)
                     @@ LayChunks(TrackWithFmt(SoundFmt), 32))}

ParseImages ==
    BadSmplImages({"first", "middle", "last"}) \cup SoundSmplImages
        \cup MislabelledImages \cup MalformedImages \cup AA3Images
        \cup FactImages \cup NestedImages

InitParse ==
    /\ atrac = NewAtrac
    /\ call = NoCall
    /\ ret = NoRet
    /\ hist = NoHist
    /\ mem \in ParseImages
    /\ saved = <<>>

DoAnalyzeAA3 ==
    /\ call.op = "new"
    /\ mem.bytes
    /\ LET x == AnalyzeAA3(atrac, BufferAddr, mem, mem.filesize)
       IN  /\ atrac' = x.a
           /\ ret' = [NoRet EXCEPT !.code = x.r]
    /\ call' = [op |-> "AnalyzeAA3", arg |-> mem.size]
    /\ UNCHANGED <<hist, mem, saved>>

NextParse == DoAnalyze \/ DoAnalyzeAA3 \/ DoSetData

SpecParse == InitParse /\ [][NextParse]_vars

-----------------------------------------------------------------------------
(* Save states: a track is analysed, loaded and decoded, the object is     *)
(* written, and the record is read back, into the object as it then is or  *)
(* into a newly constructed one.                                           *)

\* whole tracks and starts of tracks, with the joint stereo flag off and on
StateImages ==
    UNION {LET chunks == [TrackChunks(k, TrackFrames, 8, 0) EXCEPT
                            ![1] = FmtOf(AT3_MAGIC, 32, 2, 44100, 8, joint)]
               dataOff == DataOffOf(chunks)
               filesize == 12 + ChunksLength(chunks)
           IN  {RiffImage(RIFF_CHUNK_MAGIC, chunks, filesize, filesize, TRUE),
                RiffImage(RIFF_CHUNK_MAGIC, chunks, dataOff + 16, dataOff + 16,
                          TRUE)}
             : k \in TrackKinds, joint \in {0, 1}}

InitState ==
    /\ atrac = NewAtrac
    /\ call = NoCall
    /\ ret = NoRet
    /\ hist = NoHist
    /\ mem \in StateImages
    /\ saved = <<>>

\* _AtracGetContextAddress: the guest record is allocated and written
DoGetContextAddress ==
    /\ Loaded
    /\ ~atrac.context
    /\ atrac' = WriteContextToPSPMem([atrac EXCEPT !.context = TRUE])
    /\ call' = [op |-> "GetContextAddress", arg |-> 0]
    /\ ret' = NoRet
    /\ UNCHANGED <<hist, mem, saved>>

\* the layouts records are written under: the oldest and the current one
Layouts == {1, CurrentLayout}

\* a run is followed for MaxSaves records written and MaxLoads records read
MaxSaves == 1

MaxLoads == 1

\* DoState in write mode, once Analyze has accepted a track; a record of an
\* earlier layout is one an earlier build wrote of the object
SaveState ==
    /\ call.op # "new"
    /\ atrac.bytesPerFrame # 0
    /\ hist.saves < MaxSaves
    /\ \E s \in Layouts : saved' = Record(atrac, s)
    /\ hist' = [hist EXCEPT !.saves = @ + 1]
    /\ UNCHANGED <<atrac, call, ret, mem>>

\* new Atrac()
NewObject ==
    /\ saved # <<>>
    /\ hist.loads = 0
    /\ call.op # "NewObject"
    /\ atrac' = NewAtrac
    /\ call' = [op |-> "NewObject", arg |-> 0]
    /\ UNCHANGED <<ret, hist, mem, saved>>

\* DoState in read mode
LoadState ==
    /\ saved # <<>>
    /\ hist.loads < MaxLoads
    /\ atrac' = DoStateRead(atrac, saved)
    /\ call' = [op |-> "LoadState", arg |-> saved.version]
    /\ hist' = [hist EXCEPT !.loads = @ + 1]
    /\ UNCHANGED <<ret, mem, saved>>

NextState ==
    \/ DoAnalyze
    \/ DoSetData
    \/ DoGetContextAddress
    \/ DoDecodeData
    \/ SaveState
    \/ NewObject
    \/ LoadState

SpecState == InitState /\ [][NextState]_vars

-----------------------------------------------------------------------------
(* The guest record: a track is analysed and loaded, whole or in part, the *)
(* guest asks for the context record, and data is added and decoded.       *)

NextContext ==
    \/ DoAnalyze
    \/ DoSetData
    \/ DoGetContextAddress
    \/ DoAddStreamData
    \/ DoDecodeData

SpecContext == InitSas /\ [][NextContext]_vars

-----------------------------------------------------------------------------
(* Resets of the play position: a track is analysed and loaded, the guest  *)
(* record may be created, frames are decoded, and the play position is     *)
(* reset to samples inside and past the track with byte counts the call    *)
(* accepts and refuses.                                                    *)

\* the samples the play position is reset to: the start, the second frame,
\* and one whose file offset is past the end of the file
ResetTargets(a) == {0, SamplesPerFrame(a), (TrackFrames + 4) * SamplesPerFrame(a)}

\* the byte counts said to have been written to the second buffer
ResetSecondSizes == {0, 1}

DoResetAnywhere ==
    /\ Loaded
    /\ hist.resets < MaxResets
    /\ \E sample \in ResetTargets(atrac) :
       \E n \in ResetSizes(atrac, sample) :
       \E n2 \in ResetSecondSizes :
          /\ LET x == ResetPlayPosition(atrac, sample, n, n2)
             IN  /\ atrac' = x.a
                 /\ ret' = [NoRet EXCEPT !.code = x.r]
          /\ call' = [op |-> "ResetPlayPosition", arg |-> sample]
    /\ hist' = [hist EXCEPT !.run = "mixed", !.resets = @ + 1]
    /\ UNCHANGED <<mem, saved>>

NextReset ==
    \/ DoAnalyze
    \/ DoSetData
    \/ DoGetContextAddress
    \/ DoDecodeData
    \/ DoResetAnywhere

SpecReset == InitDecode /\ [][NextReset]_vars

-----------------------------------------------------------------------------
(* Seeking: tracks with a loop, one of them with a negative loop start,    *)
(* are loaded whole, a loop count is set, frames are decoded, and          *)
(* SeekToSample is applied to the samples the code passes it.              *)

\* the samples the loops of these tracks start at, as ints
SeekLoopStarts == {-3000, ATRAC3_MAX_SAMPLES}

\* whole files with a loop from one of these samples to sample 2000
SeekImages ==
    {WholeImage(RIFF_CHUNK_MAGIC,
                <<SoundFmt, FactOf(TrackSamples(TrackFrames, 0), 0),
                  SmplOf(<<<<U(ls), 2000>>>>), DataOf(TrackFrames * 8)>>,
                TRUE)
       : ls \in SeekLoopStarts}

InitSeek ==
    /\ atrac = NewAtrac
    /\ call = NoCall
    /\ ret = NoRet
    /\ hist = NoHist
    /\ mem \in SeekImages
    /\ saved = <<>>

\* the samples SeekToSample is given: the start of the track, the current
\* sample (as DecodeData does), the second frame, and the sample a restart
\* of the loop seeks to
SeekTargets(a) ==
    {0, a.currentSample, SamplesPerFrame(a), LoopStartAdjusted(a)}

DoSeekToSample ==
    /\ Loaded
    /\ \E sample \in SeekTargets(atrac) :
          /\ atrac' = SeekToSample(atrac, sample)
          /\ call' = [op |-> "SeekToSample", arg |-> sample]
    /\ ret' = NoRet
    /\ hist' = [hist EXCEPT !.run = "mixed"]
    /\ UNCHANGED <<mem, saved>>

DoForceSeekToSample ==
    /\ Loaded
    /\ \E sample \in SeekTargets(atrac) :
          /\ atrac' = ForceSeekToSample(atrac, sample)
          /\ call' = [op |-> "ForceSeekToSample", arg |-> sample]
    /\ ret' = NoRet
    /\ hist' = [hist EXCEPT !.run = "mixed"]
    /\ UNCHANGED <<mem, saved>>

NextSeek ==
    \/ DoAnalyze
    \/ DoSetData
    \/ DoSetLoopNum
    \/ DoDecodeData
    \/ DoSeekToSample
    \/ DoForceSeekToSample

SpecSeek == InitSeek /\ [][NextSeek]_vars

-----------------------------------------------------------------------------
(* Short tracks: the fact chunk declares fewer samples than the frames of  *)
(* the data chunk hold, so that the track ends within its first frame or   *)
(* within its second.                                                      *)

\* the sample counts the fact chunks of the short tracks declare
ShortEnds == {100, 1500}

ShortImages ==
    {WholeImage(RIFF_CHUNK_MAGIC,
                <<SoundFmt, FactOf(e, 0), DataOf(TrackFrames * 8)>>, TRUE)
       : e \in ShortEnds}
    \cup {WholeImage(RIFF_CHUNK_MAGIC,
                     <<SoundFmt, FactOf(e, 0), SmplOf(<<<<10, e - 1>>>>),
                       DataOf(TrackFrames * 8)>>, TRUE)
            : e \in ShortEnds}

InitShort ==
    /\ atrac = NewAtrac
    /\ call = NoCall
    /\ ret = NoRet
    /\ hist = NoHist
    /\ mem \in ShortImages
    /\ saved = <<>>

SpecShort == InitShort /\ [][NextDecode]_vars

-----------------------------------------------------------------------------
(* Playing a track to its end: a track held whole in its buffer is decoded *)
(* with the loop count left at 0 by a decoder that decodes every frame,    *)
(* and the calls of DecodeData are counted.                                *)

PlayImages ==
    {RiffImage(RIFF_CHUNK_MAGIC, TrackChunks(k, TrackFrames, b, fso),
               12 + ChunksLength(TrackChunks(k, TrackFrames, b, fso)),
               12 + ChunksLength(TrackChunks(k, TrackFrames, b, fso)), TRUE)
       : k \in TrackKinds, b \in BlockAligns, fso \in TrackOffsets}
    \cup ShortImages \cup FactImages

InitPlay ==
    /\ atrac = NewAtrac
    /\ call = NoCall
    /\ ret = NoRet
    /\ hist = NoHist
    /\ mem \in PlayImages
    /\ saved = <<>>

\* the frames of the track's data chunk, a last frame that is cut short
\* counted
TrackFramesOf(a) ==
    TruncDiv(a.first.filesize - a.dataOff + a.bytesPerFrame - 1,
             a.bytesPerFrame)

\* a run is followed for MaxCalls calls of DecodeData past the frames of the
\* track
MaxCalls == 3

DoDecodeCounted ==
    /\ Loaded
    /\ hist.calls < TrackFramesOf(atrac) + MaxCalls
    /\ LET x == DecodeData(atrac, NoRet, TRUE)
       IN  /\ atrac' = x.a
           /\ ret' = [code |-> x.r, samples |-> x.samples,
                      finish |-> x.finish, remains |-> x.remains]
           /\ call' = [op |-> "DecodeData",
                       arg |-> IF x.looped THEN 1 ELSE 0]
           /\ hist' = [hist EXCEPT !.calls = @ + 1,
                                   !.finished = @ \/ x.finish = 1]
    /\ UNCHANGED <<mem, saved>>

NextPlay ==
    \/ DoAnalyze
    \/ DoSetData
    \/ DoDecodeCounted
    \/ DoGetNextSamples

SpecPlay == InitPlay /\ [][NextPlay]_vars

-----------------------------------------------------------------------------
(* The guest record between calls: each call on an object starts with the  *)
(* pull of the record and the mutating ones end with the push; in between  *)
(* the game may write the record's state and loop count.                   *)

\* the game writes a state byte (all data loaded, the sound system's, one
\* with the top bit set) and a loop count into the record
DoGuestWrite ==
    /\ Loaded
    /\ atrac.context
    /\ call.op # "GuestWrite"
    /\ \E state \in {ATRAC_STATUS_ALL_DATA_LOADED, ATRAC_STATUS_FOR_SCESAS,
                      200} :
       \E loopNum \in {-1, 5} :
          atrac' = [atrac EXCEPT !.info.state = ToChar(state),
                                 !.info.loopNum = loopNum]
    /\ call' = [op |-> "GuestWrite", arg |-> 0]
    /\ ret' = NoRet
    /\ UNCHANGED <<hist, mem, saved>>

DoUpdateContext ==
    /\ Loaded
    /\ call.op # "UpdateContext"
    /\ atrac' = UpdateContextFromPSPMem(atrac)
    /\ call' = [op |-> "UpdateContext", arg |-> 0]
    /\ ret' = NoRet
    /\ UNCHANGED <<hist, mem, saved>>

DoWriteContext ==
    /\ Loaded
    /\ call.op # "WriteContext"
    /\ atrac' = WriteContextToPSPMem(atrac)
    /\ call' = [op |-> "WriteContext", arg |-> 0]
    /\ ret' = NoRet
    /\ UNCHANGED <<hist, mem, saved>>

NextSync ==
    \/ DoAnalyze
    \/ DoSetData
    \/ DoGetContextAddress
    \/ DoAddStreamData
    \/ DoGuestWrite
    \/ DoUpdateContext
    \/ DoWriteContext

SpecSync == InitSas /\ [][NextSync]_vars

-----------------------------------------------------------------------------
(* The claims.                                                             *)

Streaming == atrac.decoder /\ IsStreamed(atrac.bufferState)

\* C1: in a streamed state, after SetData and any AddStreamData and
\* ConsumeFrame calls, bufferPos_ + bufferValidBytes_ is at most twice
\* StreamBufferEnd() and bufferValidBytes_ has not gone below zero.
C1_RingInvariant ==
    (Streaming /\ call.op \in {"AddStreamData", "ConsumeFrame"}) =>
        /\ atrac.bufferPos + atrac.bufferValidBytes <= 2 * StreamBufferEnd(atrac)
        /\ S(atrac.bufferValidBytes) >= 0

\* the byte count CalculateStreamInfo reports as writable
Writable(a) == CalculateStreamInfo(a).a.first.writableBytes

\* the call that just ended was AddStreamData(n) with n above the writable
\* byte count
AddTooMany ==
    /\ call'.op = "AddStreamData"
    /\ call'.arg > Writable(atrac)

\* C2 as stated: AddStreamData(n) with n above the writable byte count
\* returns add-data-too-big and every cursor keeps its value, first_.offset
\* and first_.writableBytes included.
C2_AllCursorsKept ==
    [][AddTooMany =>
          /\ ret'.code = "ATRAC_ERROR_ADD_DATA_IS_TOO_BIG"
          /\ atrac' = atrac]_vars

\* C2 amended: AddStreamData(n) with n above the writable byte count returns
\* add-data-too-big; file offset, resident size, ring read cursor, valid
\* bytes, buffer state and every other field keep their values, except that
\* first_.offset and first_.writableBytes hold what CalculateStreamInfo has
\* just computed (the writable count is below n).
C2_TooBigKeepsCursors ==
    [][AddTooMany =>
          /\ ret'.code = "ATRAC_ERROR_ADD_DATA_IS_TOO_BIG"
          /\ atrac' = [atrac EXCEPT
                         !.first.offset = atrac'.first.offset,
                         !.first.writableBytes = atrac'.first.writableBytes]
          /\ atrac'.first.writableBytes < call'.arg
          /\ atrac'.first.writableBytes = Writable(atrac')]_vars

\* AddStreamData(writable + 1) was refused, in a streamed state with bytes
\* in the ring
C2_Witness ==
    /\ call.op = "AddStreamData"
    /\ ret.code = "ATRAC_ERROR_ADD_DATA_IS_TOO_BIG"
    /\ call.arg = atrac.first.writableBytes + 1
    /\ Streaming
    /\ atrac.bufferValidBytes > 0
    /\ atrac.first.writableBytes > 0

\* C4 as stated: SetSecondBuffer in state StreamedWithoutLoop fails with
\* second-buffer-not-needed whatever the size.
C4_NotNeededAnySize ==
    (call.op = "SetSecondBuffer"
        /\ atrac.bufferState = ATRAC_STATUS_STREAMED_WITHOUT_LOOP)
    => ret.code = "ATRAC_ERROR_SECOND_BUFFER_NOT_NEEDED"

\* secondBufferSize is below both the bytes from the loop end to the end of
\* the file and three frames
SecondTooSmall(a, n) ==
    /\ n < U(a.first.filesize
               - FileOffsetBySample(a, S(a.loopEndSample - a.firstSampleOffset)))
    /\ n < 3 * a.bytesPerFrame

\* C4 amended: SetSecondBuffer in state StreamedWithoutLoop always fails and
\* leaves the secondary descriptor (and the whole object) unchanged: with
\* size-too-small when the size is below both three frames and the bytes
\* from the loop-end offset to the end of the file, with
\* second-buffer-not-needed for every other size.
C4_WithoutLoopFails ==
    [][(call'.op = "SetSecondBuffer"
          /\ atrac.bufferState = ATRAC_STATUS_STREAMED_WITHOUT_LOOP)
       => /\ atrac' = atrac
          /\ ret'.code = IF SecondTooSmall(atrac, call'.arg)
                         THEN "ATRAC_ERROR_SIZE_TOO_SMALL"
                         ELSE "ATRAC_ERROR_SECOND_BUFFER_NOT_NEEDED"]_vars

\* SetSecondBuffer was called in state StreamedWithoutLoop with three frames
\* or more, and refused as not needed
C4_Witness ==
    /\ call.op = "SetSecondBuffer"
    /\ atrac.bufferState = ATRAC_STATUS_STREAMED_WITHOUT_LOOP
    /\ call.arg >= 3 * atrac.bytesPerFrame
    /\ ret.code = "ATRAC_ERROR_SECOND_BUFFER_NOT_NEEDED"

\* loopEndSample_ - FirstOffsetExtra() - firstSampleOffset_, as an int
LoopEndAdjusted(a) ==
    S(a.loopEndSample - FirstOffsetExtra(a) - a.firstSampleOffset)

\* SetLoopNum(N), N > 0, on a fully resident track whose loop covers it,
\* and DecodeData and GetNextSamples calls since
LoopRun ==
    /\ hist.run = "armed"
    /\ hist.loopNum0 > 0
    /\ atrac.bufferState = ATRAC_STATUS_ALL_DATA_LOADED
    /\ LoopStartAdjusted(atrac) = 0
    /\ LoopEndAdjusted(atrac) = atrac.endSample

Unaligned(a) ==
    (a.firstSampleOffset + FirstOffsetExtra(a) + a.currentSample)
        % SamplesPerFrame(a)

\* C5: GetNextSamples returns a value in 0..SamplesPerFrame(), and exactly
\* SamplesPerFrame() - u whenever u, the sample position within its frame,
\* is not zero.
C5_NextSamples ==
    call.op = "GetNextSamples" =>
        /\ ret.samples \in 0 .. SamplesPerFrame(atrac)
        /\ Unaligned(atrac) # 0 =>
              ret.samples = SamplesPerFrame(atrac) - Unaligned(atrac)

\* GetNextSamples has answered off a frame boundary after a restart of the
\* loop
C5_Witness ==
    /\ call.op = "GetNextSamples"
    /\ hist.restarts > 0
    /\ Unaligned(atrac) # 0
    /\ ret.samples = SamplesPerFrame(atrac) - Unaligned(atrac)
    /\ ret.samples < SamplesPerFrame(atrac)

\* C8: Analyze on a region of fewer than 72 bytes returns size-too-small,
\* and on a region of 72 bytes or more at a valid address whose first four
\* bytes are not the RIFF magic it returns unknown-format, whatever else the
\* region holds.
C8_ShortOrMislabelled ==
    call.op = "Analyze" =>
        /\ mem.size < 72 => ret.code = "ATRAC_ERROR_SIZE_TOO_SMALL"
        /\ (mem.size >= 72 /\ mem.valid /\ Read_U32(mem, 0) # RIFF_CHUNK_MAGIC)
              => ret.code = "ATRAC_ERROR_UNKNOWN_FORMAT"

\* Analyze has refused a region of 72 bytes that holds a sound track under
\* another magic than RIFF
C8_Witness ==
    /\ call.op = "Analyze"
    /\ mem.size = 72
    /\ mem.valid
    /\ mem.chunks # <<>>
    /\ Read_U32(mem, 0) = RIFF_WAVE_MAGIC
    /\ ret.code = "ATRAC_ERROR_UNKNOWN_FORMAT"

\* C9 as stated: Analyze returns bad-codec-params for a region with a smpl
\* chunk one of whose entries has start >= end, wherever the smpl chunk
\* stands among the chunks, after the data chunk included.
C9_BadLoopAnywhere ==
    (call.op = "Analyze"
        /\ mem \in BadSmplImages({"first", "middle", "last"}))
    => ret.code = "ATRAC_ERROR_BAD_CODEC_PARAMS"

\* C9 amended: Analyze returns bad-codec-params for a region with a smpl
\* chunk that stands before the data chunk and one of whose entries, at
\* whatever index of the table, has start >= end; a smpl chunk after the
\* data chunk is not read, and the region is accepted.
C9_BadLoopBeforeData ==
    call.op = "Analyze" =>
        /\ mem \in BadSmplImages({"first", "middle"})
              => ret.code = "ATRAC_ERROR_BAD_CODEC_PARAMS"
        /\ mem \in BadSmplImages({"last"})
              => (ret.code = "OK" /\ atrac.loopinfo = <<>>)

\* Analyze has refused a region whose smpl chunk stands before the fmt
\* chunk, for the last entry of a table of MaxLoops, an empty loop
C9_Witness ==
    /\ call.op = "Analyze"
    /\ mem = WholeImage(RIFF_CHUNK_MAGIC,
                        SmplTrack("first", LoopTable(MaxLoops, MaxLoops, 5, 5)),
                        TRUE)
    /\ ret.code = "ATRAC_ERROR_BAD_CODEC_PARAMS"

\* the state AnalyzeReset establishes, and nothing parsed left in the other
\* fields
ResetState(a) ==
    /\ a.codecType = 0
    /\ a.currentSample = 0
    /\ a.endSample = -1
    /\ a.loopNum = 0
    /\ a.loopinfo = <<>>
    /\ a.loopStartSample = -1
    /\ a.loopEndSample = -1
    /\ a.decodePos = 0
    /\ a.bufferPos = 0
    /\ a.channels = 2
    /\ a.bitrate = NewAtrac.bitrate
    /\ a.bytesPerFrame = NewAtrac.bytesPerFrame
    /\ a.firstSampleOffset = NewAtrac.firstSampleOffset

\* C10: when Analyze or AnalyzeAA3 returns a failure code, the context is in
\* the state AnalyzeReset establishes and no parsed value remains set, the
\* file size Analyze reads from the RIFF header included.
C10_FailureLeavesReset ==
    (call.op \in {"Analyze", "AnalyzeAA3"} /\ ret.code # "OK")
    => /\ ResetState(atrac)
       /\ call.op = "Analyze"
             => atrac.first.filesize = NewAtrac.first.filesize

\* the fields of the data model a record of the current layout carries
Restored(a, rec) ==
    /\ a.channels = rec.channels
    /\ a.outputChannels = rec.outputChannels
    /\ a.jointStereo = rec.jointStereo
    /\ a.atracID = rec.atracID
    /\ a.first = rec.first
    /\ a.second = rec.second
    /\ a.bufferMaxSize = rec.bufferMaxSize
    /\ a.codecType = rec.codecType
    /\ a.currentSample = rec.currentSample
    /\ a.endSample = rec.endSample
    /\ a.firstSampleOffset = rec.firstSampleOffset
    /\ a.dataOff = rec.dataOff
    /\ a.hasDataBuf = rec.hasDataBuf
    /\ a.bufferPos = rec.bufferPos
    /\ a.bitrate = rec.bitrate
    /\ a.bytesPerFrame = rec.bytesPerFrame
    /\ a.loopinfo = rec.loopinfo
    /\ a.loopStartSample = rec.loopStartSample
    /\ a.loopEndSample = rec.loopEndSample
    /\ a.loopNum = rec.loopNum
    /\ a.context = rec.context
    /\ a.bufferState = rec.bufferState
    /\ a.ignoreDataBuf = rec.ignoreDataBuf
    /\ a.bufferValidBytes = rec.bufferValidBytes
    /\ a.bufferHeaderSize = rec.bufferHeaderSize

\* DoState has read a record of the current layout, written of a populated
\* context
RoundTrip ==
    /\ call.op = "LoadState"
    /\ saved.version = CurrentLayout
    /\ saved.bufferState # ATRAC_STATUS_NO_DATA

\* C6: after DoState has written a populated context and read the record
\* back under the current layout, every field of the data model has the
\* value it was written with, decodePos_ included, and WriteContextToPSPMem
\* would write the guest record it would have written before.
C6_RoundTrip ==
    RoundTrip =>
        /\ Restored(atrac, saved)
        /\ atrac.decodePos = saved.decodePos
        /\ PushedInfo(atrac) = PushedInfo([atrac EXCEPT
                                             !.currentSample = saved.currentSample,
                                             !.decodePos = saved.decodePos])

\* DoState has read a record of the oldest layout
OldRead ==
    /\ call.op = "LoadState"
    /\ saved.version = 1

\* C7: after reading a record of the oldest layout, the fields later layouts
\* added hold the values derived from the record: dataOff_ the first sample
\* offset, bufferPos_ the decode position or dataOff_ when streamed,
\* bufferState_ NoData when the record has no store, ignoreDataBuf_ false,
\* bufferHeaderSize_ dataOff_, bufferValidBytes_ the lesser of first.size -
\* dataOff_ and ring end - dataOff_; and each of them, the joint stereo flag
\* included, is what reading the record into a new object gives.
C7_OldLayoutDerived ==
    OldRead =>
        LET fresh == DoStateRead(NewAtrac, saved) IN
        /\ atrac.dataOff = saved.firstSampleOffset
        /\ atrac.bufferPos = IF IsStreamed(atrac.bufferState)
                             THEN atrac.dataOff ELSE saved.decodePos
        /\ ~saved.hasDataBuf => atrac.bufferState = ATRAC_STATUS_NO_DATA
        /\ atrac.ignoreDataBuf = FALSE
        /\ atrac.bufferHeaderSize = atrac.dataOff
        /\ atrac.bufferValidBytes
             = Min(U(atrac.first.size - atrac.dataOff),
                   U(StreamBufferEnd(atrac) - atrac.dataOff))
        /\ atrac.jointStereo = fresh.jointStereo
        /\ atrac.bufferState = fresh.bufferState
        /\ atrac.bufferPos = fresh.bufferPos
        /\ atrac.bufferValidBytes = fresh.bufferValidBytes

\* C11: Analyze of a well-formed region with a sound fmt chunk (44100 Hz, 1
\* or 2 channels, block align not 0), a fact chunk declaring E > 0 samples,
\* no smpl chunk and a data chunk succeeds, with loopStartSample_ =
\* loopEndSample_ = -1 and endSample_ = E - 1.
C11_FactEndSample ==
    (call.op = "Analyze" /\ mem \in FactImages) =>
        /\ ret.code = "OK"
        /\ atrac.loopStartSample = -1
        /\ atrac.loopEndSample = -1
        /\ atrac.endSample = mem.chunks[2].cells[0] - 1

\* Analyze has accepted a mono ATRAC3+ track declaring 100000 samples, and
\* the end sample is 99999
C11_Witness ==
    /\ call.op = "Analyze"
    /\ mem \in FactImages
    /\ atrac.codecType = PSP_MODE_AT_3_PLUS
    /\ atrac.channels = 1
    /\ mem.chunks[2].cells[0] = 100000
    /\ ret.code = "OK"
    /\ atrac.endSample = 99999

\* the end of the track is reached and no loop remains
PastEnd(a) ==
    /\ a.currentSample >= a.endSample
    /\ (a.loopNum = 0 \/ a.bufferState = ATRAC_STATUS_FOR_SCESAS)

\* C12: DecodeData called with currentSample_ >= endSample_ and no loop
\* remaining (loopNum_ = 0, or the state ForSoundSystem) reports zero
\* samples and finish = 1, returns all-data-decoded, and changes no field of
\* the object (current sample, decode position, ring cursors, valid bytes,
\* file offset, loop count among them); the guest record alone is
\* refreshed.
C12_PastEndKeepsState ==
    [][(call'.op = "DecodeData" /\ PastEnd(atrac)) =>
          /\ ret'.samples = 0
          /\ ret'.finish = 1
          /\ ret'.code = "ATRAC_ERROR_ALL_DATA_DECODED"
          /\ atrac' = [atrac EXCEPT !.info = atrac'.info]]_vars

\* DecodeData has reported the end of a track bound to the sound system
\* whose loop count is not zero, no frame having failed to decode
C12_Witness ==
    /\ call.op = "DecodeData"
    /\ PastEnd(atrac)
    /\ atrac.bufferState = ATRAC_STATUS_FOR_SCESAS
    /\ atrac.loopNum # 0
    /\ ~hist.fault
    /\ ret.code = "ATRAC_ERROR_ALL_DATA_DECODED"
    /\ ret.finish = 1

\* C13: whichever way DecodeData returns (past the end of the track, on a
\* frame that fails to decode, or normally), the guest record, when there is
\* one, holds the view of the object WriteContextToPSPMem writes.
C13_RecordRefreshed ==
    (call.op = "DecodeData" /\ atrac.context) => atrac.info = PushedInfo(atrac)

\* C14: once SetData has loaded a track, whatever AddStreamData,
\* AddStreamDataSas, DecodeData, ResetPlayPosition and SeekToSample calls
\* follow, the first buffer's valid size and its file offset are at most the
\* file size.
C14_WithinFile ==
    (atrac.bufferState # ATRAC_STATUS_NO_DATA /\ atrac.decoder)
        => /\ atrac.first.size <= atrac.first.filesize
           /\ atrac.first.fileoffset <= atrac.first.filesize

\* C15: a ResetPlayPosition call that returns a failure code (first byte
\* count out of range, second byte count out of range, file position past the
\* file) leaves every field of the context, the guest record included, as it
\* was.
C15_FailureKeepsContext ==
    [][(call'.op = "ResetPlayPosition" /\ ret'.code # "OK")
           => atrac' = atrac]_vars

\* a reset to a file position past the file has been refused with the guest
\* record in place
C15_Witness ==
    /\ call.op = "ResetPlayPosition"
    /\ ret.code = "ATRAC_ERROR_API_FAIL"
    /\ atrac.context

\* C16: Analyze returns, with success or a failure code, on every region:
\* the search for the WAVE magic never comes back to an offset it has tested.
C16_AnalyzeReturns ==
    call.op = "Analyze" => ret.code # "loops"

\* the call that just ended was AddStreamData in state AllDataLoaded
AddWhenLoaded ==
    /\ call'.op = "AddStreamData"
    /\ atrac.decoder
    /\ atrac.bufferState = ATRAC_STATUS_ALL_DATA_LOADED

\* what CalculateStreamInfo reports in state AllDataLoaded, and the fate of
\* AddStreamData(n) with n > 0
LoadedNeedsNothing ==
    /\ LET c == CalculateStreamInfo(atrac)
       IN  /\ c.readOffset = 0
           /\ c.a.first.offset = 0
           /\ c.a.first.writableBytes = 0
    /\ atrac'.bufferState = ATRAC_STATUS_ALL_DATA_LOADED
    /\ call'.arg > 0 => ret'.code = "ATRAC_ERROR_ADD_DATA_IS_TOO_BIG"
    /\ call'.arg = 0 => ret'.code = "OK"

\* C17 as stated: in state AllDataLoaded CalculateStreamInfo reports read
\* offset 0, write offset 0 and 0 writable bytes, AddStreamData(n) with n > 0
\* fails with add-data-too-big and the state stays, and AddStreamData(0)
\* succeeds and changes no cursor: file offset, resident size, write offset,
\* writable count, ring read cursor and valid bytes keep their values.
C17_NoCursorMoves ==
    [][AddWhenLoaded =>
          /\ LoadedNeedsNothing
          /\ call'.arg = 0 =>
                /\ atrac'.first = atrac.first
                /\ atrac'.bufferPos = atrac.bufferPos
                /\ atrac'.bufferValidBytes = atrac.bufferValidBytes
                /\ atrac'.bufferHeaderSize = atrac.bufferHeaderSize]_vars

\* C17 amended: as stated, except that after AddStreamData(0), as after the
\* refused calls, first_.offset and first_.writableBytes hold the zeros
\* CalculateStreamInfo has just stored, whatever they held before; every
\* other field of the object keeps its value (the guest record is rewritten).
C17_LoadedAddsNothing ==
    [][AddWhenLoaded =>
          /\ LoadedNeedsNothing
          /\ atrac' = [atrac EXCEPT !.first.offset = 0,
                                    !.first.writableBytes = 0,
                                    !.info = atrac'.info]
          /\ call'.arg > 0 => atrac'.info = atrac.info]_vars

\* AddStreamData(0) has succeeded in state AllDataLoaded, with the guest
\* record in place
C17_Witness ==
    /\ call.op = "AddStreamData"
    /\ call.arg = 0
    /\ ret.code = "OK"
    /\ atrac.decoder
    /\ atrac.bufferState = ATRAC_STATUS_ALL_DATA_LOADED
    /\ atrac.first.offset = 0
    /\ atrac.first.size = atrac.first.filesize
    /\ atrac.context

\* the call that just ended was AddStreamData in state HalfwayBuffer
AddWhenHalfway ==
    /\ call'.op = "AddStreamData"
    /\ atrac.decoder
    /\ atrac.bufferState = ATRAC_STATUS_HALFWAY_BUFFER

\* C18: in state HalfwayBuffer the writable byte count is first_.filesize -
\* first_.fileoffset and the resident size is below the file size; a
\* successful AddStreamData(n) adds n to the resident size and leaves the
\* state AllDataLoaded if the resident size now equals the file size and
\* HalfwayBuffer if it does not; a refused call leaves the state.
C18_PromotedWhenLoaded ==
    [][AddWhenHalfway =>
          /\ Writable(atrac) = atrac.first.filesize - atrac.first.fileoffset
          /\ atrac.first.size < atrac.first.filesize
          /\ ret'.code = "OK" =>
                /\ atrac'.first.size = atrac.first.size + call'.arg
                /\ atrac'.first.filesize = atrac.first.filesize
                /\ atrac'.bufferState =
                      IF atrac'.first.size = atrac'.first.filesize
                      THEN ATRAC_STATUS_ALL_DATA_LOADED
                      ELSE ATRAC_STATUS_HALFWAY_BUFFER
          /\ ret'.code # "OK" =>
                atrac'.bufferState = ATRAC_STATUS_HALFWAY_BUFFER]_vars

\* an AddStreamData call of some bytes has completed the file: the state is
\* AllDataLoaded, which refuses every such call
C18_Witness ==
    /\ call.op = "AddStreamData"
    /\ call.arg > 0
    /\ ret.code = "OK"
    /\ atrac.bufferState = ATRAC_STATUS_ALL_DATA_LOADED
    /\ atrac.first.size = atrac.first.filesize
    /\ hist.stray = 0

\* the file offset of the loop end, as SetSecondBuffer computes it
LoopEndOffset(a) ==
    FileOffsetBySample(a, S(a.loopEndSample - a.firstSampleOffset))

\* C19: SetSecondBuffer(addr, size) in state StreamedLoopWithTrailer fails
\* with size-too-small, leaving the object as it was, exactly when size is
\* below both first_.filesize minus the file offset of the loop end and
\* three frames; otherwise it succeeds and sets the secondary descriptor's
\* address, size and file offset to addr, size and that offset, and nothing
\* else.
C19_TrailerSecondBuffer ==
    [][(call'.op = "SetSecondBuffer"
          /\ atrac.bufferState = ATRAC_STATUS_STREAMED_LOOP_WITH_TRAILER)
       => IF /\ call'.arg < atrac.first.filesize - LoopEndOffset(atrac)
             /\ call'.arg < 3 * atrac.bytesPerFrame
          THEN /\ ret'.code = "ATRAC_ERROR_SIZE_TOO_SMALL"
               /\ atrac' = atrac
          ELSE /\ ret'.code = "OK"
               /\ atrac' = [atrac EXCEPT
                              !.second.addr = SecondAddr,
                              !.second.size = call'.arg,
                              !.second.fileoffset = LoopEndOffset(atrac)]]_vars

\* SetSecondBuffer has succeeded in state StreamedLoopWithTrailer with a size
\* of less than three frames
C19_Witness ==
    /\ call.op = "SetSecondBuffer"
    /\ atrac.bufferState = ATRAC_STATUS_STREAMED_LOOP_WITH_TRAILER
    /\ ret.code = "OK"
    /\ call.arg < 3 * atrac.bytesPerFrame
    /\ atrac.second.size = call.arg
    /\ atrac.second.addr = SecondAddr
    /\ atrac.second.fileoffset = LoopEndOffset(atrac)

\* C20: in every streamed state what CalculateStreamInfo gives satisfies
\* readOffset + first_.writableBytes <= first_.filesize and
\* first_.offset + first_.writableBytes <= bufferMaxSize_.
C20_WritableInside ==
    Streaming =>
        LET c == CalculateStreamInfo(atrac)
        IN  /\ c.readOffset + c.a.first.writableBytes <= atrac.first.filesize
            /\ c.a.first.offset + c.a.first.writableBytes
                  <= atrac.bufferMaxSize

\* what ConsumeFrame does to the valid byte count and to every field other
\* than the ring cursors: one frame off the valid bytes, floored at zero, in
\* a streamed state, and nothing else
ConsumedOneFrame ==
    /\ atrac'.bufferValidBytes =
          IF IsStreamed(atrac.bufferState)
          THEN Max(atrac.bufferValidBytes - atrac.bytesPerFrame, 0)
          ELSE atrac.bufferValidBytes
    /\ atrac' = [atrac EXCEPT !.bufferPos = atrac'.bufferPos,
                              !.bufferValidBytes = atrac'.bufferValidBytes,
                              !.bufferHeaderSize = atrac'.bufferHeaderSize]

C22_SeekFeedsData ==
    [][/\ call'.op = "SeekToSample" =>
            /\ atrac'.currentSample = call'.arg
            /\ IF call'.arg = atrac.currentSample /\ call'.arg # 0
               THEN ~atrac'.seek.flushed /\ atrac'.seek.count = 0
               ELSE /\ atrac'.seek.flushed
                    /\ atrac'.seek.count <= 2
                    /\ \A k \in 0 .. atrac'.seek.count - 1 :
                          LET p == atrac'.seek.start + k * atrac.bytesPerFrame
                          IN  /\ atrac.dataOff <= p
                              /\ p < SeekPrefill(atrac, call'.arg).off
       /\ call'.op = "ForceSeekToSample" =>
            /\ atrac'.currentSample = call'.arg
            /\ atrac'.seek.flushed
            /\ atrac'.seek.count = 0]_vars

\* DecodeData has just reported finish = 1 on its end-of-track path: the
\* call returned 0 and restarted no loop
FinishedAtEnd ==
    /\ call.op = "DecodeData"
    /\ ret.code = "OK"
    /\ ret.finish = 1

\* C23: whenever DecodeData reports finish = 1 through the end-of-track
\* path, the current sample it leaves lies on a frame boundary:
\* (firstSampleOffset + FirstOffsetExtra + current_sample) mod
\* SamplesPerFrame = 0, also when the finishing call was unaligned.
C23_FinishOnBoundary ==
    FinishedAtEnd => Unaligned(atrac) = 0

\* C24: the samples DecodeData reports in one call never exceed
\* SamplesPerFrame() nor the budget end_sample + 1 - current_sample taken
\* before the call, in aligned and in unaligned calls alike.
C24_SamplesWithinBudget ==
    [][call'.op = "DecodeData" =>
         /\ ret'.samples <= SamplesPerFrame(atrac)
         /\ ret'.samples <= atrac.endSample + 1 - atrac.currentSample]_vars

\* a fully resident track with loop bounds that loops without end
LoopsForever ==
    /\ atrac.bufferState = ATRAC_STATUS_ALL_DATA_LOADED
    /\ atrac.loopEndSample > 0
    /\ atrac.loopNum < 0

\* C25: with loop_num negative on a fully resident track with loop bounds,
\* a call of DecodeData in a run whose frames have all decoded reports
\* neither finish = 1 nor all-data-decoded, leaves loop_num as it was, and
\* leaves current_sample before the end and not past the loop end, or at
\* loop_start - FirstOffsetExtra - firstSampleOffset, where a restart of the
\* loop puts it.
C25_LoopsForever ==
    [][LoopsForever /\ call'.op = "DecodeData" /\ ~hist'.fault =>
         /\ ret'.code = "OK"
         /\ ret'.finish = 0
         /\ atrac'.loopNum = atrac.loopNum
         /\ call'.arg = 1 =>
              atrac'.currentSample = LoopStartAdjusted(atrac)
         /\ call'.arg = 0 =>
              /\ atrac'.currentSample < atrac.endSample
              /\ atrac'.currentSample <= LoopEndAdjusted(atrac)]_vars

\* DecodeData has restarted the loop of a track that loops without end
C25_Witness ==
    /\ call.op = "DecodeData"
    /\ call.arg = 1
    /\ ~hist.fault
    /\ hist.restarts > 1
    /\ atrac.bufferState = ATRAC_STATUS_ALL_DATA_LOADED
    /\ atrac.loopNum < 0
    /\ atrac.currentSample = LoopStartAdjusted(atrac)

\* C26: in buffer state ForSoundSystem DecodeData leaves loop_num as it
\* was, whatever its value.
C26_SasKeepsLoopNum ==
    [][atrac.bufferState = ATRAC_STATUS_FOR_SCESAS /\ call'.op = "DecodeData"
         => atrac'.loopNum = atrac.loopNum]_vars

\* DecodeData has run past the end of a track bound to the sound system
\* whose loop count is positive
C26_Witness ==
    /\ call.op = "DecodeData"
    /\ atrac.bufferState = ATRAC_STATUS_FOR_SCESAS
    /\ atrac.loopNum = MaxLoopNum
    /\ ret.code = "ATRAC_ERROR_ALL_DATA_DECODED"
    /\ ~hist.fault

\* the operations whose effects the guest can observe
GuestObservable ==
    {"SetData", "AddStreamData", "SetSecondBuffer", "SetLoopNum",
     "ResetPlayPosition", "InitLowLevel", "DecodeData"}

\* C27: after every successful guest-observable operation, when a guest
\* record exists its fields equal the pushed view of the object; in
\* particular, after an AddStreamData that does not complete the file,
\* curOff and streamDataByte match first_.fileoffset and
\* first_.size - dataOff_.
C27_RecordFollows ==
    (atrac.context /\ call.op \in GuestObservable /\ ret.code = "OK")
        => atrac.info = PushedInfo(atrac)

\* C28: on a track held whole in its buffer, with loop_num 0 and a decoder
\* that decodes every frame, each call of DecodeData moves current_sample
\* forward or reports finish = 1 or all-data-decoded, and finish has been
\* reported once the calls number the frames of the track plus one.
C28_NeverStalls ==
    [][(/\ atrac.bufferState = ATRAC_STATUS_ALL_DATA_LOADED
        /\ atrac.loopNum = 0
        /\ call'.op = "DecodeData") =>
         /\ \/ atrac'.currentSample > atrac.currentSample
            \/ ret'.finish = 1
            \/ ret'.code = "ATRAC_ERROR_ALL_DATA_DECODED"
         /\ hist'.calls >= TrackFramesOf(atrac) + 1 => hist'.finished]_vars

\* the call that makes the frames of the track plus one reports the finish
C28_Witness ==
    /\ call.op = "DecodeData"
    /\ atrac.bufferState = ATRAC_STATUS_ALL_DATA_LOADED
    /\ atrac.loopNum = 0
    /\ hist.calls = TrackFramesOf(atrac) + 1
    /\ ret.code = "OK"
    /\ ret.finish = 1
    /\ ret.samples = 0

\* C29: in every state reached from SetData through AddStreamData,
\* GetNextSamples, DecodeData and ResetPlayPosition, ignoreDataBuf_ is true
\* whenever the buffer state is HalfwayBuffer or AllDataLoaded.
C29_PassThroughTracksState ==
    (/\ Loaded
     /\ atrac.bufferState \in {ATRAC_STATUS_HALFWAY_BUFFER,
                               ATRAC_STATUS_ALL_DATA_LOADED})
        => atrac.ignoreDataBuf

\* C30: with a guest record, WriteContextToPSPMem followed at once by
\* UpdateContextFromPSPMem leaves the buffer state and loop_num as they
\* were, and UpdateContextFromPSPMem changes no other field than these two;
\* with no record, neither changes anything.
C30_PushThenPull ==
    [][/\ call'.op = "UpdateContext" =>
            /\ atrac' = [atrac EXCEPT !.bufferState = atrac'.bufferState,
                                      !.loopNum = atrac'.loopNum]
            /\ call.op = "WriteContext" =>
                 /\ atrac'.bufferState = atrac.bufferState
                 /\ atrac'.loopNum = atrac.loopNum
       /\ (call'.op \in {"UpdateContext", "WriteContext"} /\ ~atrac.context)
            => atrac' = atrac]_vars

\* the record has been written and read back by an object whose state the
\* game had set to a byte with the top bit set
C30_Witness ==
    /\ call.op = "UpdateContext"
    /\ atrac.context
    /\ atrac.bufferState = 200
    /\ atrac.loopNum = -1
    /\ atrac.info = PushedInfo(atrac)

=============================================================================
